---------------------------- MODULE Spec2Model ----------------------------
(***************************************************************************)
(* Model of the application core of the Hands-Free Audio Gateway bridge:   *)
(*   - the work dispatcher (bt_app_core.c): bt_app_work_dispatch,          *)
(*     bt_app_send_msg, bt_app_task_handler over a FreeRTOS queue;         *)
(*   - the command frame parser (app_hf_msg_prs.c): hf_msg_parse;          *)
(*   - the argument splitter (app_hf_msg_prs.c): hf_msg_split_args.        *)
(***************************************************************************)
EXTENDS Integers, Sequences, FiniteSets, TLC

VARIABLES
    \* ---- work dispatcher (bt_app_core.c) ----
    bt_app_task_queue,   \* contents of the FreeRTOS queue, oldest first
    heap,                \* malloc'ed parameter blocks: address -> [bytes, live]
    src_buf,             \* the parameter buffer of calling context 1
    ppc,                 \* producer position inside bt_app_work_dispatch
    pmsg,                \* producer's local bt_app_msg_t msg
    ret,                 \* last value returned by bt_app_work_dispatch
    wpc,                 \* worker position inside bt_app_task_handler
    wmsg,                \* worker's local bt_app_msg_t msg
    calls,               \* number of bt_app_work_dispatch calls made so far
    psnap,               \* history: caller bytes at the moment of the call
    enq,                 \* history: successful enqueues, in enqueue order
    invoked,             \* history: callback invocations made by the worker,
                         \* each with the bytes seen through the parameter
                         \* pointer and whether the caller's buffer differs
                         \* from them at that moment
    \* ---- command frame parser (app_hf_msg_prs.c) ----
    prs,                 \* the hf_msg_prs_cb_t the bytes are fed to
    fed,                 \* history: the bytes fed so far
    before,              \* history: prs.state before each fed byte
    results,             \* history: the result code of each hf_msg_parse call
    frames,              \* history: the callback invocations
    mid_frame_reg,       \* history: the callback was registered again while
                         \* a frame was being accumulated
    \* ---- argument splitter (app_hf_msg_prs.c) ----
    split_buf,           \* the bytes of [start, end) followed by the byte at end
    split_argn,          \* the incoming *argn
    split_out,           \* buffer, argv and *argn after hf_msg_split_args
    \* ---- command dispatch (app_hf_msg_prs.c, app_hf_msg_set.c) ----
    cmd_buf,             \* the buffer of a completed frame
    cmd_out,             \* history: what hf_msg_args_parser did with it
    \* ---- audio pacing engine (bt_app_hf.c) ----
    aud_clock,           \* esp_timer_get_time(), in microseconds
    s_audio_code,        \* the codec of the audio connection
    s_send_data_Semaphore, \* the binary semaphore: 1 when given
    s_m_rb,              \* the ring buffer
    s_last_enter_time,   \* the last-production instant
    s_us_duration,       \* the elapsed time computed at the last wake
    frame_data_num,      \* generation task: bytes to generate this wake
    index,               \* bt_app_hf_create_audio_data: static int index
    gpc,                 \* generation task: where it is in its loop
    gbuf,                \* generation task: the chunk generated (buf)
    done,                \* generation task: result of the last xRingbufferSend
    ready,               \* history: the last wake notified the transport
    opc,                 \* bt_app_hf_outgoing_cb: where the call is
    o_sz,                \* bt_app_hf_outgoing_cb: sz
    o_item_size,         \* bt_app_hf_outgoing_cb: item_size
    p_buf,               \* bt_app_hf_outgoing_cb: the caller's buffer
    o_ret,               \* bt_app_hf_outgoing_cb: the value returned last
    \* ---- life cycle of the dispatcher (bt_app_core.c, app_main) ----
    am_pc,               \* app_main: index of its next call into the dispatcher
    su_pc,               \* bt_app_task_start_up: index of its next step
    sd_pc,               \* bt_app_task_shut_down: index of its next step
    wd_handle,           \* the statics bt_app_task_handle, bt_app_task_queue
    wd_live,             \* number of live worker tasks and dispatch queues
    wd_teardown,         \* history: the objects deleted, in order
    wd_events,           \* history: dispatches made outside the interval,
                         \* receives from a deleted queue
    \* ---- life cycle of the audio engine (bt_app_hf.c) ----
    audio_state,         \* the last audio-state event given to bt_app_hf_cb
    hf_pc,               \* bt_app_hf_cb: the function it is inside
    hf_step,             \* index of the next step of that function
    aud_handle,          \* the statics s_periodic_timer, s_send_data_Semaphore,
                         \* s_bt_app_send_data_task_handler, s_m_rb as handles
    aud_live,            \* number of live timers, armed timers, tasks,
                         \* semaphores and ring buffers
    aud_teardown,        \* history: the objects deleted, in order
    aud_events,          \* history: what happened to objects around shutdown
    aud_nevents,         \* history: the number of audio-state events given
    synth                \* history: the number of bytes synthesized since boot

wdvars == << bt_app_task_queue, heap, src_buf, ppc, pmsg, ret, wpc, wmsg,
             calls, psnap, enq, invoked >>

prsvars == << prs, fed, before, results, frames, mid_frame_reg >>

splitvars == << split_buf, split_argn, split_out >>

cmdvars == << cmd_buf, cmd_out >>

audvars == << aud_clock, s_audio_code, s_send_data_Semaphore, s_m_rb,
              s_last_enter_time, s_us_duration, frame_data_num, index, gpc,
              gbuf, done, ready, opc, o_sz, o_item_size, p_buf, o_ret >>

wdlifevars == << am_pc, su_pc, sd_pc, wd_handle, wd_live, wd_teardown,
                 wd_events >>

audlifevars == << audio_state, hf_pc, hf_step, aud_handle, aud_live,
                  aud_teardown, aud_events, aud_nevents, synth >>

lifevars == << wdlifevars, audlifevars >>

vars == << bt_app_task_queue, heap, src_buf, ppc, pmsg, ret, wpc, wmsg,
           calls, psnap, enq, invoked, prs, fed, before, results, frames,
           mid_frame_reg, split_buf, split_argn, split_out, cmd_buf, cmd_out,
           aud_clock, s_audio_code, s_send_data_Semaphore, s_m_rb,
           s_last_enter_time, s_us_duration, frame_data_num, index, gpc,
           gbuf, done, ready, opc, o_sz, o_item_size, p_buf, o_ret,
           am_pc, su_pc, sd_pc, wd_handle, wd_live, wd_teardown, wd_events,
           audio_state, hf_pc, hf_step, aud_handle, aud_live, aud_teardown,
           aud_events, aud_nevents, synth >>

-----------------------------------------------------------------------------
(* Bounds of the model *)

\* total number of bt_app_work_dispatch calls explored
MaxDispatch == 3
\* number of slots of the dispatch queue.  bt_app_task_start_up creates it
\* with xQueueCreate(10, sizeof(bt_app_msg_t)); the model takes a shorter
\* queue so that the full queue is reached within MaxDispatch calls
QueueLength == 2

\* capacity of the parser's frame buffer (HF_MSG_LEN_MAX of
\* app_hf_msg_prs.h); any value that holds the frame "hf con;" will do
HF_MSG_LEN_MAX == 8
\* length of the byte streams fed to the parser from its reset state
MaxStream == 6
\* length of the byte streams fed to a parser one byte short of overflow
MaxTail == 3
\* length of the inputs of hf_msg_split_args
MaxSplitLen == 5
\* largest argument limit passed to hf_msg_split_args (besides
\* HF_MSG_ARGS_MAX)
MaxArgn == 3
\* the longest argument list fed to a command handler
MaxCmdArgs == 4
\* the longest payload of blanks fed to hf_msg_args_parser
MaxBlank == 3
\* the capacity of the ring buffer, in cells of 120 bytes
RingbufCells == 6
\* the number of timer ticks of an audio session
MaxTicks == 14
\* the number of audio-state events given to bt_app_hf_cb
MaxEvents == 4
\* the number of timer ticks over the audio sessions of the life cycle
MaxLifeTicks == 8

(* Program constants *)

\* bt_app_core.h: BT_APP_SIG_WORK_DISPATCH
BT_APP_SIG_WORK_DISPATCH == 1
\* app_hf_msg_prs.h: HF_MSG_ARGS_MAX, the size of the argument vector
HF_MSG_ARGS_MAX == 8

NULL == 0
Producers == {1, 2}
Byte == {0, 1}
\* the caller's parameter buffer holds two bytes
Buffers == Byte \X Byte
NoSnap == [bytes |-> << >>, copy |-> FALSE]

NoMsg == [id |-> 0, sig |-> 0, event |-> 0, cb |-> "NULL", param |-> NULL]


-----------------------------------------------------------------------------
(* Memory.  A block returned by malloc in the id-th call has address id    *)
(* (a positive number); the caller's parameter buffer has address -1;      *)
(* NULL is 0.                                                              *)

SrcAddr == 0 - 1

Deref(a) ==
    IF a = SrcAddr THEN src_buf
    ELSE IF a \in DOMAIN heap THEN heap[a].bytes
    ELSE << >>

\* The calling contexts.  Context 1 is a stack callback that passes its
\* event parameter (or, wrongly, no buffer with a length); context 2 is
\* app_main, which passes no parameter: bt_app_work_dispatch(
\* bt_hf_hdl_stack_evt, BT_APP_EVT_STACK_UP, NULL, 0, NULL).  No call of
\* the repository passes a deep-copy callback, and none is explored.
DispatchArgs(p) ==
    IF p = 1
    THEN { [cb |-> "cb", event |-> 1, has_params |-> TRUE,
            param_len |-> 1, copy_cb |-> FALSE],
           [cb |-> "cb", event |-> 2, has_params |-> FALSE,
            param_len |-> 1, copy_cb |-> FALSE] }
    ELSE { [cb |-> "bt_hf_hdl_stack_evt", event |-> 0, has_params |-> FALSE,
            param_len |-> 0, copy_cb |-> FALSE] }

-----------------------------------------------------------------------------
(* bt_app_core.c *)

\* msg.param = malloc(param_len): the address stored in the message
MallocAlias(id) == SrcAddr
Malloc(id) == id

\* memcpy(msg.param, p_params, param_len)
Memcpy(p_params, param_len) == [i \in 1..param_len |-> p_params[i]]

\* xQueueSend posts to the back of the queue
xQueueSendToFront(q, m) == << m >> \o q
xQueueSendToBack(q, m) == Append(q, m)

\* a queue created by xQueueCreate(10, ...) accepts a message while it
\* holds fewer than 10
uxQueueSpacesAvailable(q) == QueueLength - Len(q)

\* bt_app_send_msg: true exactly when xQueueSend returned pdTRUE
SendMsgResultAlways(sent) == TRUE
SendMsgResult(sent) == sent

\* bt_app_work_dispatch returns val; its local msg goes out of scope
Returned(p, id, val, why) ==
    /\ ret' = [ret EXCEPT ![p] = [id |-> id, val |-> val, why |-> why]]
    /\ ppc' = [ppc EXCEPT ![p] = "idle"]
    /\ pmsg' = [pmsg EXCEPT ![p] = NoMsg]

\* bt_app_work_dispatch up to the call of bt_app_send_msg (or the return
\* of false when the arguments or malloc rule the send out)
bt_app_work_dispatch(p, a, malloc_ok, deep) ==
    LET id == calls + 1
        m0 == [id |-> id, sig |-> BT_APP_SIG_WORK_DISPATCH,
               event |-> a.event, cb |-> a.cb, param |-> NULL]
    IN
    /\ ppc[p] = "idle"
    /\ calls < MaxDispatch
    /\ calls' = id
    /\ IF a.param_len = 0
       THEN /\ pmsg' = [pmsg EXCEPT ![p] = m0]
            /\ ppc' = [ppc EXCEPT ![p] = "send"]
            /\ UNCHANGED << heap, ret, psnap >>
       ELSE IF a.has_params /\ a.param_len > 0
       THEN IF malloc_ok
            THEN /\ pmsg' = [pmsg EXCEPT ![p] =
                                 [m0 EXCEPT !.param = Malloc(id)]]
                 /\ heap' = (id :> [bytes |-> IF a.copy_cb THEN deep
                                              ELSE Memcpy(src_buf, a.param_len),
                                    live |-> TRUE, frees |-> 0]) @@ heap
                 /\ psnap' = [psnap EXCEPT ![p] =
                                  [bytes |-> SubSeq(src_buf, 1, a.param_len),
                                   copy |-> a.copy_cb]]
                 /\ ppc' = [ppc EXCEPT ![p] = "send"]
                 /\ UNCHANGED ret
            ELSE /\ Returned(p, id, FALSE, "alloc")
                 /\ UNCHANGED << heap, psnap >>
       ELSE /\ Returned(p, id, FALSE, "args")
            /\ UNCHANGED << heap, psnap >>
    /\ UNCHANGED << bt_app_task_queue, src_buf, wpc, wmsg, enq, invoked >>

Dispatch ==
    \E p \in Producers, malloc_ok \in BOOLEAN : \E a \in DispatchArgs(p) :
        \E deep \in [1..(IF a.copy_cb THEN a.param_len ELSE 0) -> Byte] :
            /\ (malloc_ok \/ (a.has_params /\ a.param_len > 0))
            /\ bt_app_work_dispatch(p, a, malloc_ok, deep)

\* the message is copied into the queue and bt_app_send_msg returns
Enqueue(p) ==
    /\ bt_app_task_queue' = xQueueSendToBack(bt_app_task_queue, pmsg[p])
    /\ enq' = Append(enq, [id |-> pmsg[p].id, cb |-> pmsg[p].cb,
                           event |-> pmsg[p].event, snap |-> psnap[p]])
    /\ psnap' = [psnap EXCEPT ![p] = NoSnap]
    /\ Returned(p, pmsg[p].id, SendMsgResult(TRUE), "sent")

\* bt_app_send_msg: xQueueSend(bt_app_task_queue, msg, 10 / portTICK_PERIOD_MS)
\* finds room at once, or the caller blocks on the full queue
bt_app_send_msg(p) ==
    /\ ppc[p] = "send"
    /\ IF uxQueueSpacesAvailable(bt_app_task_queue) > 0
       THEN Enqueue(p)
       ELSE /\ ppc' = [ppc EXCEPT ![p] = "blocked"]
            /\ UNCHANGED << bt_app_task_queue, enq, ret, pmsg, psnap >>
    /\ UNCHANGED << heap, src_buf, wpc, wmsg, calls, invoked >>

\* room appears within the 10 ms wait: the blocked sender posts its message
xQueueSend_unblocked(p) ==
    /\ ppc[p] = "blocked"
    /\ uxQueueSpacesAvailable(bt_app_task_queue) > 0
    /\ Enqueue(p)
    /\ UNCHANGED << heap, src_buf, wpc, wmsg, calls, invoked >>

\* the 10 ms wait expires with the queue still full: xQueueSend returns
\* errQUEUE_FULL and bt_app_send_msg returns false
xQueueSend_timeout(p) ==
    /\ ppc[p] = "blocked"
    /\ uxQueueSpacesAvailable(bt_app_task_queue) <= 0
    /\ Returned(p, pmsg[p].id, SendMsgResult(FALSE), "full")
    /\ psnap' = [psnap EXCEPT ![p] = NoSnap]
    /\ UNCHANGED << bt_app_task_queue, heap, src_buf, wpc, wmsg, calls, enq,
                    invoked >>

\* the caller writes into its own buffer (any time it is not inside
\* bt_app_work_dispatch)
CallerOverwrite(b) ==
    /\ ppc[1] = "idle"
    /\ b # src_buf
    /\ src_buf' = b
    /\ UNCHANGED << bt_app_task_queue, heap, ppc, pmsg, ret, wpc, wmsg, calls,
                    psnap, enq, invoked >>

xQueueReceiveNewest(q) == [msg |-> q[Len(q)], rest |-> << >>]
\* xQueueReceive on a queue that is not empty: the message copied out and
\* the messages left in the queue
xQueueReceive(q) == [msg |-> Head(q), rest |-> Tail(q)]

\* bt_app_task_handler: xQueueReceive(bt_app_task_queue, &msg, portMAX_DELAY)
bt_app_task_handler_receive ==
    /\ wpc = "receive"
    /\ bt_app_task_queue # << >>
    /\ wmsg' = xQueueReceive(bt_app_task_queue).msg
    /\ bt_app_task_queue' = xQueueReceive(bt_app_task_queue).rest
    /\ wpc' = "switch"
    /\ UNCHANGED << heap, src_buf, ppc, pmsg, ret, calls, psnap, enq,
                    invoked >>

\* bt_app_task_handler: switch (msg.sig), with bt_app_work_dispatched
bt_app_work_dispatched ==
    /\ wpc = "switch"
    /\ IF wmsg.sig = BT_APP_SIG_WORK_DISPATCH /\ wmsg.cb # "NULL"
       THEN invoked' = Append(invoked,
                          [id |-> wmsg.id, cb |-> wmsg.cb,
                           event |-> wmsg.event, seen |-> Deref(wmsg.param),
                           overwritten |->
                               LET seen == Deref(wmsg.param)
                               IN SubSeq(src_buf, 1, Len(seen)) # seen])
       ELSE UNCHANGED invoked
    /\ wpc' = "free"
    /\ UNCHANGED << bt_app_task_queue, heap, src_buf, ppc, pmsg, ret, wmsg,
                    calls, psnap, enq >>

\* bt_app_task_handler: if (msg.param) free(msg.param); the loop then
\* returns to xQueueReceive, which overwrites the whole of msg, so the
\* local is cleared here
bt_app_task_handler_free ==
    /\ wpc = "free"
    /\ IF wmsg.param # NULL /\ wmsg.param \in DOMAIN heap
       THEN heap' = [heap EXCEPT ![wmsg.param] =
                        [@ EXCEPT !.live = FALSE, !.frees = @ + 1]]
       ELSE UNCHANGED heap
    /\ wpc' = "receive"
    /\ wmsg' = NoMsg
    /\ UNCHANGED << bt_app_task_queue, src_buf, ppc, pmsg, ret, calls,
                    psnap, enq, invoked >>

\* state after bt_app_task_start_up: an empty queue and the worker waiting
WDInit ==
    /\ bt_app_task_queue = << >>
    /\ heap = << >>
    /\ src_buf = << 0, 0 >>
    /\ ppc = [p \in Producers |-> "idle"]
    /\ pmsg = [p \in Producers |-> NoMsg]
    /\ ret = [p \in Producers |-> [id |-> 0, val |-> FALSE, why |-> "none"]]
    /\ wpc = "receive"
    /\ wmsg = NoMsg
    /\ calls = 0
    /\ psnap = [p \in Producers |-> NoSnap]
    /\ enq = << >>
    /\ invoked = << >>

WDNext ==
    \/ Dispatch
    \/ \E p \in Producers : bt_app_send_msg(p)
    \/ \E p \in Producers : xQueueSend_unblocked(p)
    \/ \E p \in Producers : xQueueSend_timeout(p)
    \/ \E b \in Buffers : CallerOverwrite(b)
    \/ bt_app_task_handler_receive
    \/ bt_app_work_dispatched
    \/ bt_app_task_handler_free

-----------------------------------------------------------------------------
(* bt_app_core.c and app_main: the life cycle of the dispatcher.           *)
(* xQueueCreate and xTaskCreate are taken to succeed (their results are    *)
(* not looked at by bt_app_task_start_up).  bt_app_task_shut_down has no   *)
(* caller in the repository: it is called once, after app_main has made    *)
(* its calls and while no bt_app_work_dispatch call is in progress, and    *)
(* no dispatch is started after it.                                        *)

\* app_main: its calls into the dispatcher, in program order
app_main_dispatch_first == << "bt_app_work_dispatch", "bt_app_task_start_up" >>
app_main == << "bt_app_task_start_up", "bt_app_work_dispatch" >>

\* bt_app_task_start_up: what it creates, in program order
bt_app_task_start_up_steps == << "queue", "task" >>

\* bt_app_task_shut_down: what it deletes, in program order
bt_app_task_shut_down_queue_first == << "queue", "task" >>
bt_app_task_shut_down_steps == << "task", "queue" >>

AppMainCall == IF am_pc <= Len(app_main) THEN app_main[am_pc] ELSE "none"

\* bt_app_task_start_up has returned
StartUpReturned ==
    \E i \in 1..(am_pc - 1) : app_main[i] = "bt_app_task_start_up"

\* bt_app_task_start_up has returned and bt_app_task_shut_down is not called
WDUp == StartUpReturned /\ sd_pc = 1

\* a bt_app_work_dispatch call that begins outside the interval is recorded
DispatchEvents ==
    IF WDUp THEN wd_events ELSE wd_events \cup {"dispatch_outside"}

\* bt_app_task_start_up, one statement at a time
bt_app_task_start_up ==
    /\ AppMainCall = "bt_app_task_start_up"
    /\ IF bt_app_task_start_up_steps[su_pc] = "queue"
       THEN \* bt_app_task_queue = xQueueCreate(10, sizeof(bt_app_msg_t))
            /\ wd_live' = [wd_live EXCEPT !.queue = @ + 1]
            /\ wd_handle' = [wd_handle EXCEPT !.bt_app_task_queue = "set"]
            /\ bt_app_task_queue' = << >>
            /\ UNCHANGED << wpc, wmsg >>
       ELSE \* xTaskCreate(bt_app_task_handler, ..., &bt_app_task_handle)
            /\ wd_live' = [wd_live EXCEPT !.task = @ + 1]
            /\ wd_handle' = [wd_handle EXCEPT !.bt_app_task_handle = "set"]
            /\ wpc' = "receive"
            /\ wmsg' = NoMsg
            /\ UNCHANGED bt_app_task_queue
    /\ IF su_pc = Len(bt_app_task_start_up_steps)
       THEN su_pc' = 1 /\ am_pc' = am_pc + 1
       ELSE su_pc' = su_pc + 1 /\ UNCHANGED am_pc
    /\ UNCHANGED << heap, src_buf, ppc, pmsg, ret, calls, psnap, enq, invoked,
                    sd_pc, wd_teardown, wd_events >>

\* app_main: bt_app_work_dispatch(bt_hf_hdl_stack_evt, BT_APP_EVT_STACK_UP,
\* NULL, 0, NULL)
app_main_dispatch ==
    /\ AppMainCall = "bt_app_work_dispatch"
    /\ \E a \in DispatchArgs(2) : bt_app_work_dispatch(2, a, TRUE, << >>)
    /\ am_pc' = am_pc + 1
    /\ wd_events' = DispatchEvents
    /\ UNCHANGED << su_pc, sd_pc, wd_handle, wd_live, wd_teardown >>

\* a stack callback dispatches work once the stack-up dispatch is made
StackDispatch ==
    /\ am_pc > Len(app_main)
    /\ sd_pc = 1
    /\ \E malloc_ok \in BOOLEAN : \E a \in DispatchArgs(1) :
           bt_app_work_dispatch(1, a, malloc_ok, << >>)
    /\ wd_events' = DispatchEvents
    /\ UNCHANGED << am_pc, su_pc, sd_pc, wd_handle, wd_live, wd_teardown >>

\* the steps of a dispatch call after its entry
DispatchProgress ==
    /\ \/ \E p \in Producers : bt_app_send_msg(p)
       \/ \E p \in Producers : xQueueSend_unblocked(p)
       \/ \E p \in Producers : xQueueSend_timeout(p)
    /\ UNCHANGED wdlifevars

\* the worker task runs while it exists; a receive from a queue that is
\* not live is recorded
WorkerRuns ==
    /\ wd_live.task > 0
    /\ \/ bt_app_task_handler_receive
       \/ bt_app_work_dispatched
       \/ bt_app_task_handler_free
    /\ wd_events' = IF wpc = "receive" /\ wd_live.queue = 0
                    THEN wd_events \cup {"receive_deleted_queue"}
                    ELSE wd_events
    /\ UNCHANGED << am_pc, su_pc, sd_pc, wd_handle, wd_live, wd_teardown >>

\* bt_app_task_shut_down, one statement at a time
bt_app_task_shut_down ==
    /\ sd_pc <= Len(bt_app_task_shut_down_steps)
    /\ sd_pc = 1 => /\ am_pc > Len(app_main)
                    /\ \A p \in Producers : ppc[p] = "idle"
    /\ IF bt_app_task_shut_down_steps[sd_pc] = "task"
       THEN \* if (bt_app_task_handle) { vTaskDelete(...); ... = NULL; }
            IF wd_handle.bt_app_task_handle # "NULL"
            THEN /\ wd_live' = [wd_live EXCEPT !.task = @ - 1]
                 /\ wd_handle' = [wd_handle EXCEPT
                                     !.bt_app_task_handle = "NULL"]
                 /\ wd_teardown' = Append(wd_teardown, "task")
            ELSE UNCHANGED << wd_live, wd_handle, wd_teardown >>
       ELSE \* if (bt_app_task_queue) { vQueueDelete(...); ... = NULL; }
            IF wd_handle.bt_app_task_queue # "NULL"
            THEN /\ wd_live' = [wd_live EXCEPT !.queue = @ - 1]
                 /\ wd_handle' = [wd_handle EXCEPT
                                     !.bt_app_task_queue = "NULL"]
                 /\ wd_teardown' = Append(wd_teardown, "queue")
            ELSE UNCHANGED << wd_live, wd_handle, wd_teardown >>
    /\ sd_pc' = sd_pc + 1
    /\ UNCHANGED << wdvars, am_pc, su_pc, wd_events >>

\* before app_main: the statics are NULL and nothing exists
WDBoot ==
    /\ am_pc = 1
    /\ su_pc = 1
    /\ sd_pc = 1
    /\ wd_handle = [bt_app_task_handle |-> "NULL", bt_app_task_queue |-> "NULL"]
    /\ wd_live = [task |-> 0, queue |-> 0]
    /\ wd_teardown = << >>
    /\ wd_events = {}

\* after app_main has called bt_app_task_start_up
WDStarted ==
    /\ am_pc = 2
    /\ su_pc = 1
    /\ sd_pc = 1
    /\ wd_handle = [bt_app_task_handle |-> "set", bt_app_task_queue |-> "set"]
    /\ wd_live = [task |-> 1, queue |-> 1]
    /\ wd_teardown = << >>
    /\ wd_events = {}

WDLifeNext ==
    \/ bt_app_task_start_up
    \/ app_main_dispatch
    \/ StackDispatch
    \/ DispatchProgress
    \/ WorkerRuns
    \/ bt_app_task_shut_down

-----------------------------------------------------------------------------
(* app_hf_msg_prs.c: the frame parser.  Bytes are one-character strings;   *)
(* "NUL" stands for the byte '\0'.                                         *)

NUL == "NUL"

\* const static char hf_msg_hdr[HF_MSG_HDR_LEN] = {'h', 'f', ' '}
hf_msg_hdr == << "h", "f", " " >>
HF_MSG_HDR_LEN == Len(hf_msg_hdr)
\* const static char hf_msg_tail[HF_MSG_TAIL_LEN] = {';'}
hf_msg_tail == << ";" >>
HF_MSG_TAIL_LEN == Len(hf_msg_tail)

\* app_hf_msg_prs.h: char buf[HF_MSG_LEN_MAX + 1]
HF_MSG_BUF_SIZE == HF_MSG_LEN_MAX + 1

\* a C array index i is position i + 1 of the TLA+ sequence
At(arr, i) == arr[i + 1]

\* int isspace(int): the white-space bytes of the "C" locale
isspace_blank_only(c) == c = " "
isspace(c) == c \in {" ", "TAB", "LF", "VT", "FF", "CR"}

\* hf_msg_parser_reset_state
hf_msg_parser_reset_state_keep_cnt(p) ==
    [p EXCEPT !.state = "IDLE", !.h_idx = 0, !.t_idx = 0]
hf_msg_parser_reset_state(p) ==
    [p EXCEPT !.state = "IDLE", !.cnt = 0, !.h_idx = 0, !.t_idx = 0]

\* hf_msg_parser_register_callback
hf_msg_parser_register_callback_resets(p, cb) ==
    [hf_msg_parser_reset_state(p) EXCEPT !.callback = cb]
hf_msg_parser_register_callback(p, cb) == [p EXCEPT !.callback = cb]


\* hf_msg_split_args: while (isspace((int)*p) && p != end) ++p
RECURSIVE SkipSpaces(_, _, _)
SkipSpaces(buf, p, end) ==
    IF isspace(At(buf, p)) /\ p # end THEN SkipSpaces(buf, p + 1, end) ELSE p

\* hf_msg_split_args: while (!isspace((int)*p) && p != end) ++p
RECURSIVE SkipToken(_, _, _)
SkipToken(buf, p, end) ==
    IF ~isspace(At(buf, p)) /\ p # end THEN SkipToken(buf, p + 1, end) ELSE p

\* hf_msg_split_args: the body of for (int i = 0; i < max_argn; ++i), from
\* iteration i with the scan pointer at p; r holds buf, argv and *argn
RECURSIVE SplitLoop(_, _, _, _, _)
SplitLoop(i, max_argn, p, end, r) ==
    IF i >= max_argn THEN [r EXCEPT !.p = p]
    ELSE LET p1 == SkipSpaces(r.buf, p, end) IN
         IF p1 = end THEN [r EXCEPT !.p = p1]
         ELSE LET r1 == [r EXCEPT !.argv[i + 1] = p1, !.argn = @ + 1]
                  p2 == SkipToken(r.buf, p1 + 1, end)
              IN IF p2 = end THEN [r1 EXCEPT !.p = p2]
                 ELSE SplitLoop(i + 1, max_argn, p2 + 1, end,
                                [r1 EXCEPT !.buf[p2 + 1] = NUL])

\* the null pointer, among pointers that are indices into a buffer
NULLPTR == 0 - 1

\* hf_msg_split_args: memset(argv, 0, (*argn) * sizeof(void *))
MemsetArgvWhole(argv, argn) == [i \in 1..Len(argv) |-> NULLPTR]
MemsetArgv(argv, argn) ==
    [i \in 1..Len(argv) |-> IF i <= argn THEN NULLPTR ELSE argv[i]]

\* hf_msg_split_args(start, end, argv, argn): the buffer, argv and *argn
\* after the call, and the scan pointer p at the return.  buf is the array
\* start and end point into; argv has room for the incoming *argn pointers
\* at least.
hf_msg_split_args(buf, start, end, argv, argn) ==
    IF argn = 0 THEN [buf |-> buf, argv |-> argv, argn |-> argn, p |-> start]
    ELSE SplitLoop(0, argn, start, end,
                   [buf |-> buf, argv |-> MemsetArgv(argv, argn), argn |-> 0,
                    p |-> start])

\* hf_msg_args_parser(buf, len), as far as the split: it overwrites the
\* tail byte with '\0' and splits the payload in place
hf_msg_args_parser(buf, len) ==
    LET end == len - HF_MSG_TAIL_LEN
    IN hf_msg_split_args([buf EXCEPT ![end + 1] = NUL], HF_MSG_HDR_LEN, end,
                         [i \in 1..HF_MSG_ARGS_MAX |-> NULLPTR],
                         HF_MSG_ARGS_MAX)

\* the record of one callback invocation: the len bytes handed over, len
\* and the byte that follows them
Handed(buf, len) ==
    [frame |-> SubSeq(buf, 1, len), len |-> len, nul |-> At(buf, len)]

\* prs->callback(prs->buf, prs->cnt): the buffer after the callback ran
Callback(p) ==
    IF p.callback = "hf_msg_args_parser"
    THEN hf_msg_args_parser(p.buf, p.cnt).buf
    ELSE p.buf

\* hf_msg_parse: if (prs->cnt >= HF_MSG_LEN_MAX)
BufferFullOffByOne(cnt) == cnt > HF_MSG_LEN_MAX
BufferFull(cnt) == cnt >= HF_MSG_LEN_MAX

\* hf_msg_parse, case HF_MSG_PRS_IDLE: if (c == hf_msg_hdr[0])
IsHeaderStartAny(c) == c \in {hf_msg_hdr[1], "x"}
IsHeaderStart(c) == c = hf_msg_hdr[1]

\* hf_msg_parse, case HF_MSG_PRS_HDR: if (++(prs->h_idx) == HF_MSG_HDR_LEN)
HeaderDoneEarly(h_idx) == h_idx = HF_MSG_HDR_LEN - 1
HeaderDone(h_idx) == h_idx = HF_MSG_HDR_LEN

\* hf_msg_parse, case HF_MSG_PRS_PAYL: if (c == hf_msg_tail[prs->t_idx])
TailMatchLoose(c, t_idx) == c \in {hf_msg_tail[t_idx + 1], "c"}
TailMatch(c, t_idx) == c = hf_msg_tail[t_idx + 1]

\* hf_msg_parse(c, prs): the indices of prs->buf the call stores into
hf_msg_parse_stores(c, p) ==
    CASE p.state = "IDLE" -> IF IsHeaderStart(c) THEN {0} ELSE {}
      [] p.state = "HDR" ->
            IF c = hf_msg_hdr[p.h_idx + 1] THEN {p.cnt} ELSE {}
      [] p.state = "PAYL" ->
            {p.cnt} \cup (IF /\ TailMatch(c, p.t_idx)
                             /\ p.t_idx + 1 = HF_MSG_TAIL_LEN
                          THEN {p.cnt + 1} ELSE {})

\* hf_msg_parse(c, prs): the parser after the call, the result code and
\* the callback invocations made (none or one)
hf_msg_parse(c, p) ==
    CASE p.state = "IDLE" ->
            IF IsHeaderStart(c)
            THEN [prs |-> [p EXCEPT !.state = "HDR", !.buf[1] = c,
                                    !.cnt = 1, !.h_idx = 1],
                  err |-> "IN_PROGRESS", cb |-> << >>]
            ELSE [prs |-> p, err |-> "HDR_UNDETECTED", cb |-> << >>]
      [] p.state = "HDR" ->
            IF c = hf_msg_hdr[p.h_idx + 1]
            THEN LET p1 == [p EXCEPT !.buf[p.cnt + 1] = c, !.cnt = @ + 1,
                                     !.h_idx = @ + 1]
                 IN [prs |-> IF HeaderDone(p1.h_idx)
                             THEN [p1 EXCEPT !.state = "PAYL", !.t_idx = 0]
                             ELSE p1,
                     err |-> "IN_PROGRESS", cb |-> << >>]
            ELSE [prs |-> hf_msg_parser_reset_state(p),
                  err |-> "HDR_SYNC_FAILED", cb |-> << >>]
      [] p.state = "PAYL" ->
            LET p1 == [p EXCEPT !.buf[p.cnt + 1] = c, !.cnt = @ + 1]
                match == TailMatch(c, p.t_idx)
                p2 == [p1 EXCEPT !.t_idx = IF match THEN @ + 1 ELSE 0]
            IN IF match /\ p2.t_idx = HF_MSG_TAIL_LEN
               THEN LET p3 == [p2 EXCEPT !.buf[p2.cnt + 1] = NUL]
                    IN [prs |-> hf_msg_parser_reset_state(
                                    [p3 EXCEPT !.buf = Callback(p3)]),
                        err |-> "OK",
                        cb |-> << Handed(p3.buf, p3.cnt) >>]
               ELSE IF BufferFull(p2.cnt)
               THEN [prs |-> hf_msg_parser_reset_state(p2),
                     err |-> "BUF_OVERFLOW", cb |-> << >>]
               ELSE [prs |-> p2, err |-> "IN_PROGRESS", cb |-> << >>]

-----------------------------------------------------------------------------
(* The byte streams fed to the parser *)

Alphabet == {"h", "f", " ", ";", "c"}

IsPrefix(s, t) == Len(s) <= Len(t) /\ s = SubSeq(t, 1, Len(s))

\* the streams of the command frame examples
Examples ==
    { << "h", "f", " ", "c", "o", "n", ";" >>,
      << "x", "f", " ", "c", "o", "n", ";" >>,
      << "h", "h", "f", " ", "c", "o", "n", ";" >> }

\* a header and a payload that leave the buffer one byte short of full
Filler == hf_msg_hdr \o [i \in 1..(HF_MSG_LEN_MAX - 1 - HF_MSG_HDR_LEN) |-> "c"]

\* the streams explored: every stream over Alphabet of up to MaxStream
\* bytes, the examples, and Filler followed by up to MaxTail bytes
Allowed(s) ==
    \/ Len(s) <= MaxStream /\ \A i \in 1..Len(s) : s[i] \in Alphabet
    \/ \E e \in Examples : IsPrefix(s, e)
    \/ IsPrefix(s, Filler)
    \/ /\ IsPrefix(Filler, s)
       /\ Len(s) <= Len(Filler) + MaxTail
       /\ \A i \in 1..Len(s) : s[i] \in Alphabet

\* one call hf_msg_parse(c, &prs) of the serial input loop
Feed(c) ==
    LET r == hf_msg_parse(c, prs) IN
    /\ Allowed(Append(fed, c))
    /\ prs' = r.prs
    /\ fed' = Append(fed, c)
    /\ before' = Append(before, prs.state)
    /\ results' = Append(results, r.err)
    /\ frames' = frames \o [i \in 1..Len(r.cb) |->
                               [frame |-> r.cb[i].frame, len |-> r.cb[i].len,
                                nul |-> r.cb[i].nul, at |-> Len(fed) + 1]]
    /\ UNCHANGED << mid_frame_reg, wdvars, splitvars >>

\* between two feeds the application registers its callback again
RegisterCallback ==
    /\ prs' = hf_msg_parser_register_callback(prs, "hf_msg_args_parser")
    /\ mid_frame_reg' = (mid_frame_reg \/ prs.state # "IDLE")
    /\ UNCHANGED << fed, before, results, frames >>
    /\ UNCHANGED << wdvars, splitvars >>

\* the parser after hf_msg_parser_reset_state and
\* hf_msg_parser_register_callback(prs, hf_msg_args_parser)
PrsInit ==
    /\ prs = [state |-> "IDLE", buf |-> [i \in 1..HF_MSG_BUF_SIZE |-> NUL],
              cnt |-> 0, h_idx |-> 0, t_idx |-> 0,
              callback |-> "hf_msg_args_parser"]
    /\ fed = << >>
    /\ before = << >>
    /\ results = << >>
    /\ frames = << >>
    /\ mid_frame_reg = FALSE

PrsNext ==
    \/ \E c \in Alphabet \cup {"o", "n", "x"} : Feed(c)
    \/ RegisterCallback

-----------------------------------------------------------------------------
(* The calls of hf_msg_split_args explored on their own *)

SplitAlphabet == {" ", "TAB", "a", "b"}

\* the payload of the frame "hf   ind 0 1 2 3  ;"
SplitExample ==
    << " ", " ", "i", "n", "d", " ", "0", " ", "1", " ", "2", " ", "3",
       " ", " " >>

SplitInputs ==
    UNION { [1..n -> SplitAlphabet] : n \in 0..MaxSplitLen } \cup {SplitExample}

\* an argv slot the caller has not initialised
JUNK == 0 - 2

NoSplit == [buf |-> << >>, argv |-> << >>, argn |-> 0 - 1, p |-> 0]

\* no call of hf_msg_split_args is under way
SplitIdle ==
    /\ split_buf = << NUL >>
    /\ split_argn = 0
    /\ split_out = NoSplit

\* a caller has set up [start, end) with '\0' at end, as hf_msg_args_parser
\* does, and an argument limit
SplitInit ==
    /\ split_buf \in { Append(t, NUL) : t \in SplitInputs }
    /\ split_argn \in 0..MaxArgn \cup {HF_MSG_ARGS_MAX}
    /\ split_out = NoSplit

\* hf_msg_split_args(start, end, argv, &argn) with start the first byte of
\* split_buf, end its last and argv an array of split_argn + 1 slots
CallSplit ==
    /\ split_out = NoSplit
    /\ split_out' = hf_msg_split_args(split_buf, 0, Len(split_buf) - 1,
                                      [i \in 1..(split_argn + 1) |-> JUNK],
                                      split_argn)
    /\ UNCHANGED << split_buf, split_argn, wdvars, prsvars >>

SplitNext == CallSplit


\* ---------------------------------------------------------------------
\* Command dispatch (app_hf_msg_prs.c, app_hf_msg_set.c)
\* ---------------------------------------------------------------------

\* one call of the audio-gateway API: the function, its integer arguments
\* after the peer address, and its string argument if it has one
Act(api, args, num) == [api |-> api, args |-> args, num |-> num]

\* what a handler leaves behind: its return value, the gateway calls it
\* made, in order, and the kinds of text it printed
HandlerResult(status, acts, out) == [status |-> status, acts |-> acts, out |-> out]

Digit == {"0", "1", "2", "3", "4", "5", "6", "7", "8", "9"}

DigitVal(c) ==
    CASE c = "0" -> 0 [] c = "1" -> 1 [] c = "2" -> 2 [] c = "3" -> 3
      [] c = "4" -> 4 [] c = "5" -> 5 [] c = "6" -> 6 [] c = "7" -> 7
      [] c = "8" -> 8 [] c = "9" -> 9

\* the decimal digits of s from index i on, up to the first other byte
RECURSIVE ScanDigits(_, _, _)
ScanDigits(s, i, acc) ==
    IF i > Len(s) \/ s[i] \notin Digit THEN acc
    ELSE ScanDigits(s, i + 1, acc * 10 + DigitVal(s[i]))

\* sscanf(s, "%d", &v) on a string without whitespace: n is the return
\* value (the number of conversions) and val the value stored when n = 1.
\* An optional sign and the longest run of digits are converted; what
\* follows the digits is not looked at.
sscanf_d(s) ==
    LET signed == s # << >> /\ s[1] \in {"-", "+"}
        first == IF signed THEN 2 ELSE 1
    IN IF first > Len(s) \/ s[first] \notin Digit THEN [n |-> 0, val |-> 0]
       ELSE LET v == ScanDigits(s, first, 0)
            IN [n |-> 1, val |-> IF s[1] = "-" THEN 0 - v ELSE v]

\* esp_hf_volume_control_target_t
ESP_HF_VOLUME_CONTROL_TARGET_SPK == 0
ESP_HF_VOLUME_CONTROL_TARGET_MIC == 1
\* esp_hf_call_status_t
ESP_HF_CALL_STATUS_NO_CALLS == 0
ESP_HF_CALL_STATUS_CALL_IN_PROGRESS == 1
\* esp_hf_call_setup_status_t
ESP_HF_CALL_SETUP_STATUS_IDLE == 0
ESP_HF_CALL_SETUP_STATUS_OUTGOING_ALERTING == 3
\* esp_hf_network_state_t
ESP_HF_NETWORK_STATE_NOT_AVAILABLE == 0
ESP_HF_NETWORK_STATE_AVAILABLE == 1
\* esp_hf_at_response_code_t
ESP_HF_AT_RESPONSE_CODE_OK == 0
ESP_HF_AT_RESPONSE_CODE_CME == 7
\* esp_hf_cme_err_t
ESP_HF_CME_AG_FAILURE == 0
ESP_HF_CME_NETWORK_NOT_ALLOWED == 32

\* HF_CMD_HANDLER(help)
hf_help_handler(argn, argv) == HandlerResult(0, << >>, << "usage" >>)

hf_conn_handler_audio_first(argn, argv) ==
    HandlerResult(0, << Act("esp_hf_ag_audio_connect", << >>, << >>),
                        Act("esp_hf_ag_slc_connect", << >>, << >>) >>,
                  << "info" >>)
\* HF_CMD_HANDLER(conn)
hf_conn_handler(argn, argv) ==
    HandlerResult(0, << Act("esp_hf_ag_slc_connect", << >>, << >>),
                        Act("esp_hf_ag_audio_connect", << >>, << >>) >>,
                  << "info" >>)

\* HF_CMD_HANDLER(disc)
hf_disc_handler(argn, argv) ==
    HandlerResult(0, << Act("esp_hf_ag_slc_disconnect", << >>, << >>) >>, << "info" >>)

\* HF_CMD_HANDLER(conn_audio)
hf_conn_audio_handler(argn, argv) ==
    HandlerResult(0, << Act("esp_hf_ag_audio_connect", << >>, << >>) >>, << "info" >>)

\* HF_CMD_HANDLER(disc_audio)
hf_disc_audio_handler(argn, argv) ==
    HandlerResult(0, << Act("esp_hf_ag_audio_disconnect", << >>, << >>) >>, << "info" >>)

\* HF_CMD_HANDLER(vra_on)
hf_vra_on_handler(argn, argv) ==
    HandlerResult(0, << Act("esp_hf_ag_vra_control", << 1 >>, << >>) >>, << "info" >>)

\* HF_CMD_HANDLER(vra_off)
hf_vra_off_handler(argn, argv) ==
    HandlerResult(0, << Act("esp_hf_ag_vra_control", << 0 >>, << >>) >>, << "info" >>)

VolumeOutOfRangeAbove16(volume) == volume < 0 \/ volume > 16
\* hf_volume_control_handler: (volume < 0 || volume > 15)
VolumeOutOfRange(volume) == volume < 0 \/ volume > 15

\* HF_CMD_HANDLER(volume_control)
hf_volume_control_handler(argn, argv) ==
    IF argn # 3 THEN HandlerResult(1, << >>, << "Insufficient number of arguments" >>)
    ELSE LET target == sscanf_d(argv[2])
             volume == sscanf_d(argv[3])
         IN IF \/ target.n # 1
               \/ /\ target.val # ESP_HF_VOLUME_CONTROL_TARGET_SPK
                  /\ target.val # ESP_HF_VOLUME_CONTROL_TARGET_MIC
            THEN HandlerResult(1, << >>, << "Invalid argument" >>)
            ELSE IF volume.n # 1 \/ VolumeOutOfRange(volume.val)
            THEN HandlerResult(1, << >>, << "Invalid argument" >>)
            ELSE HandlerResult(0,
                     << Act("esp_hf_ag_volume_control",
                            << target.val, volume.val >>, << >>) >>,
                     << "info" >>)

\* HF_CMD_HANDLER(ind_change)
hf_ind_change_handler(argn, argv) ==
    IF argn # 5 THEN HandlerResult(1, << >>, << "Insufficient number of arguments" >>)
    ELSE LET call_state == sscanf_d(argv[2])
             call_setup_state == sscanf_d(argv[3])
             ntk_state == sscanf_d(argv[4])
             signal == sscanf_d(argv[5])
         IN IF \/ call_state.n # 1
               \/ /\ call_state.val # ESP_HF_CALL_STATUS_NO_CALLS
                  /\ call_state.val # ESP_HF_CALL_STATUS_CALL_IN_PROGRESS
            THEN HandlerResult(1, << >>, << "Invalid argument" >>)
            ELSE IF \/ call_setup_state.n # 1
                    \/ call_setup_state.val < ESP_HF_CALL_SETUP_STATUS_IDLE
                    \/ call_setup_state.val > ESP_HF_CALL_SETUP_STATUS_OUTGOING_ALERTING
            THEN HandlerResult(1, << >>, << "Invalid argument" >>)
            ELSE IF \/ ntk_state.n # 1
                    \/ /\ ntk_state.val # ESP_HF_NETWORK_STATE_NOT_AVAILABLE
                       /\ ntk_state.val # ESP_HF_NETWORK_STATE_AVAILABLE
            THEN HandlerResult(1, << >>, << "Invalid argument" >>)
            ELSE IF signal.n # 1 \/ signal.val < 0 \/ signal.val > 5
            THEN HandlerResult(1, << >>, << "Invalid argument" >>)
            ELSE HandlerResult(0,
                     << Act("esp_hf_ag_ciev_report_CALL", << call_state.val >>, << >>),
                        Act("esp_hf_ag_ciev_report_CALLSETUP", << call_setup_state.val >>, << >>),
                        Act("esp_hf_ag_ciev_report_SERVICE", << ntk_state.val >>, << >>),
                        Act("esp_hf_ag_ciev_report_SIGNAL", << signal.val >>, << >>) >>,
                     << "info" >>)

\* HF_CMD_HANDLER(cme_err)
hf_cme_err_handler(argn, argv) ==
    IF argn # 3 THEN HandlerResult(1, << >>, << "Insufficient number of arguments" >>)
    ELSE LET response_code == sscanf_d(argv[2])
             error_code == sscanf_d(argv[3])
         IN IF \/ response_code.n # 1
               \/ /\ response_code.val < ESP_HF_AT_RESPONSE_CODE_OK
                  /\ response_code.val > ESP_HF_AT_RESPONSE_CODE_CME
            THEN HandlerResult(1, << >>, << "Invalid argument" >>)
            ELSE IF \/ error_code.n # 1
                    \/ error_code.val < ESP_HF_CME_AG_FAILURE
                    \/ error_code.val > ESP_HF_CME_NETWORK_NOT_ALLOWED
            THEN HandlerResult(1, << >>, << "Invalid argument" >>)
            ELSE HandlerResult(0,
                     << Act("esp_hf_ag_cmee_send",
                            << response_code.val, error_code.val >>, << >>) >>,
                     << "info" >>)

\* HF_CMD_HANDLER(ir_on)
hf_ir_on_handler(argn, argv) ==
    HandlerResult(0, << Act("esp_hf_ag_bsir", << 1 >>, << >>) >>, << "info" >>)

\* HF_CMD_HANDLER(ir_off)
hf_ir_off_handler(argn, argv) ==
    HandlerResult(0, << Act("esp_hf_ag_bsir", << 0 >>, << >>) >>, << "info" >>)

\* the literal "123456" the call handlers pass as number
CallNumber == << "1", "2", "3", "4", "5", "6" >>

\* HF_CMD_HANDLER(ac)
hf_ac_handler(argn, argv) ==
    HandlerResult(0, << Act("esp_hf_ag_answer_call", << 1, 0, 1, 1, 0 >>, CallNumber) >>,
                  << "info" >>)

\* HF_CMD_HANDLER(rc)
hf_rc_handler(argn, argv) ==
    HandlerResult(0, << Act("esp_hf_ag_reject_call", << 0, 0, 0, 0, 0 >>, CallNumber) >>,
                  << "info" >>)

\* HF_CMD_HANDLER(end)
hf_end_handler(argn, argv) ==
    HandlerResult(0, << Act("esp_hf_ag_end_call", << 0, 0, 0, 0, 0 >>, CallNumber) >>,
                  << "info" >>)

\* HF_CMD_HANDLER(d)
hf_d_handler(argn, argv) ==
    IF argn # 2 THEN HandlerResult(0, << >>, << "Insufficient number of arguments" >>)
    ELSE HandlerResult(0, << Act("esp_hf_ag_out_call", << 1, 0, 1, 2, 0 >>, argv[2]) >>,
                       << "info" >>)

\* hf_cmd_tbl: the command string and the handler of each entry
hf_cmd_tbl ==
    << [str |-> << "h" >>, handler |-> "hf_help_handler"],
       [str |-> << "c", "o", "n" >>, handler |-> "hf_conn_handler"],
       [str |-> << "d", "i", "s" >>, handler |-> "hf_disc_handler"],
       [str |-> << "c", "o", "n", "a" >>, handler |-> "hf_conn_audio_handler"],
       [str |-> << "d", "i", "s", "a" >>, handler |-> "hf_disc_audio_handler"],
       [str |-> << "v", "u" >>, handler |-> "hf_volume_control_handler"],
       [str |-> << "i", "n", "d" >>, handler |-> "hf_ind_change_handler"],
       [str |-> << "v", "r", "o", "n" >>, handler |-> "hf_vra_on_handler"],
       [str |-> << "v", "r", "o", "f", "f" >>, handler |-> "hf_vra_off_handler"],
       [str |-> << "a", "t", "e" >>, handler |-> "hf_cme_err_handler"],
       [str |-> << "i", "r", "o", "n" >>, handler |-> "hf_ir_on_handler"],
       [str |-> << "i", "r", "o", "f", "f" >>, handler |-> "hf_ir_off_handler"],
       [str |-> << "a", "c" >>, handler |-> "hf_ac_handler"],
       [str |-> << "r", "c" >>, handler |-> "hf_rc_handler"],
       [str |-> << "e", "n", "d" >>, handler |-> "hf_end_handler"],
       [str |-> << "d" >>, handler |-> "hf_d_handler"] >>

\* hf_get_cmd_tbl_size()
hf_get_cmd_tbl_size == Len(hf_cmd_tbl)

\* hdl->handler(argn, argv)
CallHandler(h, argn, argv) ==
    CASE h = "hf_help_handler" -> hf_help_handler(argn, argv)
      [] h = "hf_conn_handler" -> hf_conn_handler(argn, argv)
      [] h = "hf_disc_handler" -> hf_disc_handler(argn, argv)
      [] h = "hf_conn_audio_handler" -> hf_conn_audio_handler(argn, argv)
      [] h = "hf_disc_audio_handler" -> hf_disc_audio_handler(argn, argv)
      [] h = "hf_volume_control_handler" -> hf_volume_control_handler(argn, argv)
      [] h = "hf_ind_change_handler" -> hf_ind_change_handler(argn, argv)
      [] h = "hf_vra_on_handler" -> hf_vra_on_handler(argn, argv)
      [] h = "hf_vra_off_handler" -> hf_vra_off_handler(argn, argv)
      [] h = "hf_cme_err_handler" -> hf_cme_err_handler(argn, argv)
      [] h = "hf_ir_on_handler" -> hf_ir_on_handler(argn, argv)
      [] h = "hf_ir_off_handler" -> hf_ir_off_handler(argn, argv)
      [] h = "hf_ac_handler" -> hf_ac_handler(argn, argv)
      [] h = "hf_rc_handler" -> hf_rc_handler(argn, argv)
      [] h = "hf_end_handler" -> hf_end_handler(argn, argv)
      [] h = "hf_d_handler" -> hf_d_handler(argn, argv)

\* strcmp limited to the length of the table entry
strcmp_prefix(a, b) == IF IsPrefix(b, a) THEN 0 ELSE 1
\* strcmp(a, b): 0 exactly when the two strings are equal
strcmp(a, b) == IF a = b THEN 0 ELSE 1

\* the C string at pointer p of buf: the bytes from p up to the terminator
RECURSIVE ArgStr(_, _)
ArgStr(buf, p) ==
    IF p = NULLPTR \/ p >= Len(buf) \/ At(buf, p) = NUL THEN << >>
    ELSE << At(buf, p) >> \o ArgStr(buf, p + 1)

NoArgsNever(argn) == FALSE
\* hf_msg_args_parser: if (argn == 0) return
NoArgs(argn) == argn = 0

\* hf_msg_args_parser: for (int i = 0; i < cmd_tbl_size; ++i), from entry
\* i on; the 1-based index of the entry whose handler is called, 0 if the
\* loop ends with cmd_supported still false
RECURSIVE CmdLookup(_, _)
CmdLookup(i, arg0) ==
    IF i >= hf_get_cmd_tbl_size THEN 0
    ELSE IF /\ strcmp(arg0, hf_cmd_tbl[i + 1].str) = 0
            /\ hf_cmd_tbl[i + 1].handler # "NULL"
         THEN i + 1
         ELSE CmdLookup(i + 1, arg0)

\* the trace of one hf_msg_args_parser call: the handler calls made (with
\* the argument count, the argument strings and the handler's return
\* value), the gateway calls made and the kinds of text printed
CmdTrace(hcalls, acts, out) == [calls |-> hcalls, acts |-> acts, out |-> out]

\* hf_msg_args_parser after the split: r holds buf, argv and argn as
\* hf_msg_split_args left them.  The argument strings are numbered from 1:
\* argv[1] is the command, C's argv[0].
hf_msg_args_parser_lookup(r) ==
    IF NoArgs(r.argn) THEN CmdTrace(<< >>, << >>, << >>)
    ELSE LET argv == [i \in 1..r.argn |-> ArgStr(r.buf, r.argv[i])]
             k == CmdLookup(0, ArgStr(r.buf, r.argv[1]))
         IN IF k = 0
            THEN CmdTrace(<< >>, << >>, << "unsupported command", "usage" >>)
            ELSE LET h == hf_cmd_tbl[k].handler
                     res == CallHandler(h, r.argn, argv)
                 IN CmdTrace(<< [handler |-> h, argn |-> r.argn, argv |-> argv,
                                 status |-> res.status] >>,
                             res.acts, res.out)

\* the command words fed: those of hf_cmd_tbl and some that are not
CmdWords ==
    { hf_cmd_tbl[i].str : i \in 1..Len(hf_cmd_tbl) } \cup
    { << "c", "o" >>,
      << "c", "o", "n", "n" >>,
      << "C", "O", "N" >>,
      << "x" >>,
      << "h", "f" >>,
      << "v", "u", "u" >> }

\* argument words
ArgWords ==
    { << "0" >>,
      << "1" >>,
      << "3" >>,
      << "4" >>,
      << "5" >>,
      << "6" >>,
      << "7" >>,
      << "8" >>,
      << "1", "5" >>,
      << "1", "6" >>,
      << "2", "0" >>,
      << "3", "2" >>,
      << "3", "3" >>,
      << "-", "1" >>,
      << "x" >>,
      << "1", "x" >> }

\* the argument words used in the longer argument lists
FewArgWords ==
    { << "0" >>,
      << "1" >>,
      << "3" >>,
      << "5" >>,
      << "6" >>,
      << "x" >> }

\* the commands that take arguments
ArgCmdWords ==
    { << "v", "u" >>,
      << "i", "n", "d" >>,
      << "a", "t", "e" >>,
      << "d" >> }

\* the words separated by one blank
RECURSIVE Join(_)
Join(ws) ==
    IF ws = << >> THEN << >>
    ELSE IF Len(ws) = 1 THEN ws[1]
    ELSE ws[1] \o << " " >> \o Join(Tail(ws))

\* the buffer the parser hands to its callback for a payload: header,
\* payload, tail, and the terminator the parser stores behind the frame
FrameBuf(payload) == hf_msg_hdr \o payload \o hf_msg_tail \o << NUL >>

CmdPayloads ==
    { Join(<< w >> \o a) :
        w \in CmdWords, a \in UNION { [1..n -> ArgWords] : n \in 0..2 } }
    \cup
    { Join(<< w >> \o a) :
        w \in ArgCmdWords, a \in UNION { [1..n -> FewArgWords] : n \in 3..MaxCmdArgs } }
    \cup
    UNION { [1..n -> {" ", "TAB"}] : n \in 0..MaxBlank }
    \cup
    { << " ", " " >> \o Join(<< w >>) \o << "TAB" >> : w \in CmdWords }

NoCmd == CmdTrace(<< >>, << >>, << "not called" >>)

\* no frame is being dispatched
CmdIdle ==
    /\ cmd_buf = FrameBuf(<< >>)
    /\ cmd_out = CmdTrace(<< >>, << >>, << >>)

\* the parser has completed a frame and is about to call its callback
CmdInit ==
    /\ cmd_buf \in { FrameBuf(p) : p \in CmdPayloads }
    /\ cmd_out = NoCmd

\* hf_msg_args_parser(buf, len) with the completed frame
CallArgsParser ==
    /\ cmd_out = NoCmd
    /\ cmd_out' = hf_msg_args_parser_lookup(
                      hf_msg_args_parser(cmd_buf, Len(cmd_buf) - 1))
    /\ UNCHANGED << cmd_buf, wdvars, prsvars, splitvars >>

CmdNext == CallArgsParser

\* ---------------------------------------------------------------------
\* Audio pacing engine (bt_app_hf.c), during an audio session
\* ---------------------------------------------------------------------

TABLE_SIZE_BYTE == 200
PCM_BLOCK_DURATION_US == 7500
WBS_PCM_SAMPLING_RATE_KHZ == 16
PCM_SAMPLING_RATE_KHZ == 8
BYTES_PER_SAMPLE == 2
PCM_GENERATOR_TICK_US == 4000

WBS_PCM_INPUT_DATA_SIZE ==
    ((WBS_PCM_SAMPLING_RATE_KHZ * PCM_BLOCK_DURATION_US) \div 1000) * BYTES_PER_SAMPLE
PCM_INPUT_DATA_SIZE ==
    ((PCM_SAMPLING_RATE_KHZ * PCM_BLOCK_DURATION_US) \div 1000) * BYTES_PER_SAMPLE

\* The bytes of the engine are handled in cells of PCM_INPUT_DATA_SIZE
\* bytes: every chunk generated and every pull requested here is a whole
\* number of cells.  A cell of audio data is named by the waveform index of
\* its first byte; byte k of the cell is byte (index + k) % TABLE_SIZE_BYTE
\* of the table.
Cell == PCM_INPUT_DATA_SIZE

\* the capacity the ring buffer is created with (ESP_HFP_RINGBUF_SIZE is
\* 3600, 30 cells; the model uses RingbufCells cells)
ESP_HFP_RINGBUF_SIZE == RingbufCells * Cell

\* esp_hf_audio_state_t values s_audio_code takes
ESP_HF_AUDIO_STATE_CONNECTED == "CONNECTED"
ESP_HF_AUDIO_STATE_CONNECTED_MSBC == "CONNECTED_MSBC"

\* a cell of a buffer nothing has been copied into
STALE == 0 - 2

\* the sizes the transport asks bt_app_hf_outgoing_cb for
PullSizes == { Cell, 2 * Cell }

\* xRingbufferCreate(ESP_HFP_RINGBUF_SIZE, RINGBUF_TYPE_BYTEBUF): storage
\* (by cell), read position, bytes waiting, and bytes received but not
\* yet returned
xRingbufferCreate ==
    [store |-> [i \in 0..(RingbufCells - 1) |-> STALE],
     rd |-> 0, cnt |-> 0, held |-> 0]

RingbufFitsAlways(rb, n) == TRUE
\* xRingbufferSend, byte buffer, no wait: the item fits when the free
\* space is at least its size
RingbufFits(rb, n) == n <= ESP_HFP_RINGBUF_SIZE - rb.cnt - rb.held

\* xRingbufferSend(rb, data, n, 0) when the item fits: the bytes are
\* stored behind the waiting ones, around the end of the storage if needed
xRingbufferSend(rb, data, n) ==
    LET wr == rb.rd + rb.cnt
    IN [rb EXCEPT
          !.store = [i \in 0..(RingbufCells - 1) |->
                        LET k == (i + RingbufCells - ((wr \div Cell) % RingbufCells))
                                     % RingbufCells
                        IN IF k < n \div Cell THEN data[k + 1] ELSE rb.store[i]],
          !.cnt = @ + n]

\* vRingbufferGetInfo(rb, NULL, NULL, NULL, NULL, &item_size)
vRingbufferGetInfo(rb) == rb.cnt

\* the bytes waiting that lie in one piece from the read position: a byte
\* buffer hands out at most the bytes up to the end of its storage
RingbufContiguous(rb) ==
    IF rb.cnt <= ESP_HFP_RINGBUF_SIZE - rb.rd THEN rb.cnt
    ELSE ESP_HFP_RINGBUF_SIZE - rb.rd

\* xRingbufferReceiveUpTo(rb, &item_size, 0, sz): item_size
ReceiveSize(rb, sz) ==
    IF sz <= RingbufContiguous(rb) THEN sz ELSE RingbufContiguous(rb)

\* xRingbufferReceiveUpTo(rb, &item_size, 0, sz): the bytes at the pointer
\* returned
ReceiveData(rb, sz) ==
    [k \in 1..(ReceiveSize(rb, sz) \div Cell) |->
        rb.store[(rb.rd \div Cell) + k - 1]]

\* xRingbufferReceiveUpTo(rb, &item_size, 0, sz): the ring buffer after it
xRingbufferReceiveUpTo(rb, sz) ==
    LET n == ReceiveSize(rb, sz)
    IN [rb EXCEPT !.rd = (@ + n) % ESP_HFP_RINGBUF_SIZE,
                  !.cnt = @ - n,
                  !.held = @ + n]

\* vRingbufferReturnItem(rb, data)
vRingbufferReturnItem(rb) == [rb EXCEPT !.held = 0]

\* memcpy(p_buf, data, item_size)
MemcpyCells(dest, data) ==
    [k \in 1..Len(dest) |-> IF k <= Len(data) THEN data[k] ELSE dest[k]]

\* bt_app_hf_create_audio_data(p_buf, sz): the buffer filled
bt_app_hf_create_audio_data(idx, sz) ==
    [k \in 1..(sz \div Cell) |-> (idx + (k - 1) * Cell) % TABLE_SIZE_BYTE]

\* bt_app_hf_create_audio_data with an index that runs on past the table
IndexAfterNoWrap(idx, sz) == idx + sz
\* bt_app_hf_create_audio_data(p_buf, sz): the index after it
IndexAfter(idx, sz) == (idx + sz) % TABLE_SIZE_BYTE

\* the bytes per block of the codec in use
BlockBytes(code) ==
    IF code = ESP_HF_AUDIO_STATE_CONNECTED_MSBC THEN WBS_PCM_INPUT_DATA_SIZE
    ELSE PCM_INPUT_DATA_SIZE

BlocksElapsedRoundedUp(us_duration) ==
    (us_duration + PCM_BLOCK_DURATION_US - 1) \div PCM_BLOCK_DURATION_US
\* s_us_duration / PCM_BLOCK_DURATION_US
BlocksElapsed(us_duration) == us_duration \div PCM_BLOCK_DURATION_US

LastEnterAdvancePerTick(num, size) == (num \div size) * (2 * PCM_GENERATOR_TICK_US)
\* frame_data_num / WBS_PCM_INPUT_DATA_SIZE * PCM_BLOCK_DURATION_US (and the
\* same with PCM_INPUT_DATA_SIZE): what is added to s_last_enter_time
LastEnterAdvance(num, size) == (num \div size) * PCM_BLOCK_DURATION_US

NoBlocksNever(num) == FALSE
\* bt_app_send_data_task: if (frame_data_num == 0) continue
NoBlocks(num) == num = 0

\* xRingbufferSend storing as many leading bytes as there is room for
xRingbufferSendTruncating(rb, data, n) ==
    IF RingbufFits(rb, n) THEN xRingbufferSend(rb, data, n)
    ELSE LET room == ESP_HFP_RINGBUF_SIZE - rb.cnt - rb.held
         IN xRingbufferSend(rb, data, room)
\* xRingbufferSend dropping the bytes waiting when the item does not fit
xRingbufferSendFlushing(rb, data, n) ==
    IF RingbufFits(rb, n) THEN xRingbufferSend(rb, data, n)
    ELSE [rb EXCEPT !.cnt = 0]
\* xRingbufferSend(rb, data, n, 0): the ring buffer after the call, which
\* stores the whole item or, when it does not fit, nothing
xRingbufferSendNoWait(rb, data, n) ==
    IF RingbufFits(rb, n) THEN xRingbufferSend(rb, data, n) ELSE rb

DataReadyNonEmpty(item_size, code) == item_size > 0
\* bt_app_send_data_task: if (item_size >= WBS_PCM_INPUT_DATA_SIZE), or
\* PCM_INPUT_DATA_SIZE for the narrowband codec
DataReady(item_size, code) == item_size >= BlockBytes(code)

DataEnoughAlways(item_size, sz) == TRUE
\* bt_app_hf_outgoing_cb: if (item_size >= sz)
DataEnough(item_size, sz) == item_size >= sz

\* an audio session is running: bt_app_hf_cb has set the codec and
\* bt_app_send_data has returned
AudRunning ==
    /\ aud_clock = 0
    /\ s_audio_code \in {ESP_HF_AUDIO_STATE_CONNECTED,
                         ESP_HF_AUDIO_STATE_CONNECTED_MSBC}
    /\ s_send_data_Semaphore = 0
    /\ s_m_rb = xRingbufferCreate
    /\ s_last_enter_time = 0
    /\ s_us_duration = 0
    /\ frame_data_num = 0
    /\ index = 0
    /\ gpc = "take"
    /\ gbuf = << >>
    /\ done = TRUE
    /\ ready = FALSE
    /\ opc = "idle"
    /\ o_sz = 0
    /\ o_item_size = 0
    /\ p_buf = << >>
    /\ o_ret = 0 - 1

\* no audio session: the state the other specifications leave the engine in
AudIdle == AudRunning /\ s_audio_code = ESP_HF_AUDIO_STATE_CONNECTED

\* the periodic timer fires: bt_app_send_data_timer_cb gives the binary
\* semaphore (which fails when it is already given)
bt_app_send_data_timer_cb ==
    /\ aud_clock < MaxTicks * PCM_GENERATOR_TICK_US
    /\ aud_clock' = aud_clock + PCM_GENERATOR_TICK_US
    /\ s_send_data_Semaphore' = 1
    /\ UNCHANGED << s_audio_code, s_m_rb, s_last_enter_time, s_us_duration,
                    frame_data_num, index, gpc, gbuf, done, ready,
                    opc, o_sz, o_item_size, p_buf, o_ret >>

\* bt_app_send_data_task: xSemaphoreTake succeeds; the elapsed time is
\* turned into whole blocks, s_last_enter_time is advanced, and the chunk
\* is allocated and filled (osi_malloc may fail)
bt_app_send_data_task_wake(malloc_ok) ==
    /\ gpc = "take"
    /\ s_send_data_Semaphore = 1
    /\ s_send_data_Semaphore' = 0
    /\ LET dur == aud_clock - s_last_enter_time
           num == BlocksElapsed(dur) * BlockBytes(s_audio_code)
       IN /\ s_us_duration' = dur
          /\ frame_data_num' = num
          /\ s_last_enter_time' = s_last_enter_time
                 + LastEnterAdvance(num, BlockBytes(s_audio_code))
          /\ IF NoBlocks(num) \/ ~malloc_ok
             THEN UNCHANGED << index, gpc, gbuf >>
             ELSE /\ gbuf' = bt_app_hf_create_audio_data(index, num)
                  /\ index' = IndexAfter(index, num)
                  /\ gpc' = "send"
    /\ ready' = FALSE
    /\ UNCHANGED << aud_clock, s_audio_code, s_m_rb, done,
                    opc, o_sz, o_item_size, p_buf, o_ret >>

\* bt_app_send_data_task: xRingbufferSend(s_m_rb, buf, frame_data_num, 0)
\* and osi_free(buf)
bt_app_send_data_task_send ==
    /\ gpc = "send"
    /\ done' = RingbufFits(s_m_rb, frame_data_num)
    /\ s_m_rb' = xRingbufferSendNoWait(s_m_rb, gbuf, frame_data_num)
    /\ gbuf' = << >>
    /\ gpc' = "info"
    /\ UNCHANGED << aud_clock, s_audio_code, s_send_data_Semaphore,
                    s_last_enter_time, s_us_duration, frame_data_num, index,
                    ready, opc, o_sz, o_item_size, p_buf, o_ret >>

\* bt_app_send_data_task: vRingbufferGetInfo and, when a block is waiting,
\* esp_hf_ag_outgoing_data_ready()
bt_app_send_data_task_info ==
    /\ gpc = "info"
    /\ ready' = DataReady(vRingbufferGetInfo(s_m_rb), s_audio_code)
    /\ gpc' = "take"
    /\ UNCHANGED << aud_clock, s_audio_code, s_send_data_Semaphore, s_m_rb,
                    s_last_enter_time, s_us_duration, frame_data_num, index,
                    gbuf, done, opc, o_sz, o_item_size, p_buf, o_ret >>

\* bt_app_hf_outgoing_cb(p_buf, sz), up to vRingbufferGetInfo; p_buf is a
\* buffer of the transport into which nothing has been copied yet
bt_app_hf_outgoing_cb_info(sz) ==
    /\ opc = "idle"
    /\ o_sz' = sz
    /\ p_buf' = [k \in 1..(sz \div Cell) |-> STALE]
    /\ o_item_size' = vRingbufferGetInfo(s_m_rb)
    /\ o_ret' = 0 - 1
    /\ opc' = "checked"
    /\ UNCHANGED << aud_clock, s_audio_code, s_send_data_Semaphore, s_m_rb,
                    s_last_enter_time, s_us_duration, frame_data_num, index,
                    gpc, gbuf, done, ready >>

\* bt_app_hf_outgoing_cb: item_size < sz, return 0
bt_app_hf_outgoing_cb_not_enough ==
    /\ opc = "checked"
    /\ ~DataEnough(o_item_size, o_sz)
    /\ o_ret' = 0
    /\ opc' = "idle"
    /\ UNCHANGED << aud_clock, s_audio_code, s_send_data_Semaphore, s_m_rb,
                    s_last_enter_time, s_us_duration, frame_data_num, index,
                    gpc, gbuf, done, ready, o_sz, o_item_size, p_buf >>

\* bt_app_hf_outgoing_cb: item_size >= sz, xRingbufferReceiveUpTo and
\* memcpy(p_buf, data, item_size)
bt_app_hf_outgoing_cb_receive ==
    /\ opc = "checked"
    /\ DataEnough(o_item_size, o_sz)
    /\ o_item_size' = ReceiveSize(s_m_rb, o_sz)
    /\ p_buf' = MemcpyCells(p_buf, ReceiveData(s_m_rb, o_sz))
    /\ s_m_rb' = xRingbufferReceiveUpTo(s_m_rb, o_sz)
    /\ opc' = "copied"
    /\ UNCHANGED << aud_clock, s_audio_code, s_send_data_Semaphore,
                    s_last_enter_time, s_us_duration, frame_data_num, index,
                    gpc, gbuf, done, ready, o_sz, o_ret >>

\* bt_app_hf_outgoing_cb: vRingbufferReturnItem and return sz
bt_app_hf_outgoing_cb_return ==
    /\ opc = "copied"
    /\ s_m_rb' = vRingbufferReturnItem(s_m_rb)
    /\ o_ret' = o_sz
    /\ opc' = "idle"
    /\ UNCHANGED << aud_clock, s_audio_code, s_send_data_Semaphore,
                    s_last_enter_time, s_us_duration, frame_data_num, index,
                    gpc, gbuf, done, ready, o_sz, o_item_size, p_buf >>

AudNext ==
    \/ bt_app_send_data_timer_cb
    \/ \E malloc_ok \in BOOLEAN : bt_app_send_data_task_wake(malloc_ok)
    \/ bt_app_send_data_task_send
    \/ bt_app_send_data_task_info
    \/ \E sz \in PullSizes : bt_app_hf_outgoing_cb_info(sz)
    \/ bt_app_hf_outgoing_cb_not_enough
    \/ bt_app_hf_outgoing_cb_receive
    \/ bt_app_hf_outgoing_cb_return

-----------------------------------------------------------------------------
(* bt_app_hf.c: the life cycle of the audio engine.  bt_app_hf_cb runs in  *)
(* one task, so audio-state events are handled one after the other, while  *)
(* the timer callback and the generation task run in between the           *)
(* statements of bt_app_send_data and bt_app_send_data_shut_down.  A timer *)
(* callback is one step: esp_timer_stop returns with no callback in        *)
(* progress.  Creations are taken to succeed.  A handle is "NULL", "set"   *)
(* (it names the object created last, which is live) or "dangling" (that   *)
(* object was deleted and the handle kept).  Stopping or deleting through  *)
(* a dangling handle is undefined: the step is recorded and the program    *)
(* either aborts or goes on.                                               *)

\* bt_app_send_data: its statements, in program order
bt_app_send_data_steps ==
    << "sem", "task", "rb", "timer_create", "timer_start", "last_enter" >>

\* bt_app_send_data_shut_down: its statements, in program order
bt_app_send_data_shut_down_sem_first ==
    << "sem", "task", "timer_stop", "timer_delete", "rb" >>
bt_app_send_data_shut_down_steps ==
    << "task", "timer_stop", "timer_delete", "sem", "rb" >>

\* esp_timer_get_time() when the audio connection comes up
BootTimes == {0, PCM_BLOCK_DURATION_US}

\* esp_hf_audio_state_t values of an event that s_audio_code never takes
ESP_HF_AUDIO_STATE_DISCONNECTED == "DISCONNECTED"
ESP_HF_AUDIO_STATE_CONNECTING == "CONNECTING"

ConnectedStates ==
    {ESP_HF_AUDIO_STATE_CONNECTED, ESP_HF_AUDIO_STATE_CONNECTED_MSBC}

\* bt_app_hf_cb: the value stored in s_audio_code for a connected event
AudioCode(state) ==
    IF state = ESP_HF_AUDIO_STATE_CONNECTED
    THEN ESP_HF_AUDIO_STATE_CONNECTED
    ELSE ESP_HF_AUDIO_STATE_CONNECTED_MSBC

\* bt_app_send_data: s_last_enter_time = esp_timer_get_time()
SessionStartInstantZero(now) == 0
SessionStartInstant(now) == now

\* bt_app_hf_cb has handled the step and returns after the last one
HfAdvance(steps) ==
    IF hf_step = Len(steps)
    THEN hf_pc' = "idle" /\ hf_step' = 1
    ELSE hf_step' = hf_step + 1 /\ UNCHANGED hf_pc

\* bt_app_hf_cb, ESP_HF_AUDIO_STATE_EVT with state CONNECTED or
\* CONNECTED_MSBC, up to the call of bt_app_send_data
bt_app_hf_cb_connected(state) ==
    /\ hf_pc = "idle"
    /\ aud_nevents < MaxEvents
    /\ aud_nevents' = aud_nevents + 1
    /\ audio_state' = state
    /\ s_audio_code' = AudioCode(state)
    /\ hf_pc' = "bt_app_send_data"
    /\ hf_step' = 1
    /\ UNCHANGED << aud_clock, s_send_data_Semaphore, s_m_rb,
                    s_last_enter_time, s_us_duration, frame_data_num, index,
                    gpc, gbuf, done, ready, opc, o_sz, o_item_size, p_buf,
                    o_ret, aud_handle, aud_live, aud_teardown, aud_events,
                    synth >>

\* bt_app_send_data, one statement at a time
bt_app_send_data ==
    /\ hf_pc = "bt_app_send_data"
    /\ LET st == bt_app_send_data_steps[hf_step] IN
       \/ /\ st = "sem"    \* s_send_data_Semaphore = xSemaphoreCreateBinary()
          /\ s_send_data_Semaphore' = 0
          /\ aud_live' = [aud_live EXCEPT !.sem = @ + 1]
          /\ aud_handle' = [aud_handle EXCEPT !.s_send_data_Semaphore = "set"]
          /\ UNCHANGED << gpc, s_m_rb, s_last_enter_time >>
       \/ /\ st = "task"   \* xTaskCreate(bt_app_send_data_task, ...)
          /\ gpc' = "take"
          /\ aud_live' = [aud_live EXCEPT !.task = @ + 1]
          /\ aud_handle' = [aud_handle EXCEPT
                               !.s_bt_app_send_data_task_handler = "set"]
          /\ UNCHANGED << s_send_data_Semaphore, s_m_rb, s_last_enter_time >>
       \/ /\ st = "rb"     \* s_m_rb = xRingbufferCreate(...)
          /\ s_m_rb' = xRingbufferCreate
          /\ aud_live' = [aud_live EXCEPT !.rb = @ + 1]
          /\ aud_handle' = [aud_handle EXCEPT !.s_m_rb = "set"]
          /\ UNCHANGED << s_send_data_Semaphore, gpc, s_last_enter_time >>
       \/ /\ st = "timer_create"   \* esp_timer_create(..., &s_periodic_timer)
          /\ aud_live' = [aud_live EXCEPT !.timer = @ + 1]
          /\ aud_handle' = [aud_handle EXCEPT !.s_periodic_timer = "set"]
          /\ UNCHANGED << s_send_data_Semaphore, gpc, s_m_rb,
                          s_last_enter_time >>
       \/ /\ st = "timer_start"    \* esp_timer_start_periodic(...)
          /\ aud_live' = [aud_live EXCEPT !.armed = @ + 1]
          /\ UNCHANGED << s_send_data_Semaphore, gpc, s_m_rb,
                          s_last_enter_time, aud_handle >>
       \/ /\ st = "last_enter"     \* s_last_enter_time = esp_timer_get_time()
          /\ s_last_enter_time' = SessionStartInstant(aud_clock)
          /\ UNCHANGED << s_send_data_Semaphore, gpc, s_m_rb, aud_handle,
                          aud_live >>
    /\ HfAdvance(bt_app_send_data_steps)
    /\ UNCHANGED << aud_clock, s_audio_code, s_us_duration, frame_data_num,
                    index, gbuf, done, ready, opc, o_sz, o_item_size, p_buf,
                    o_ret, audio_state, aud_teardown, aud_events,
                    aud_nevents, synth >>

\* bt_app_hf_cb, ESP_HF_AUDIO_STATE_EVT with state DISCONNECTED
bt_app_hf_cb_disconnected ==
    /\ hf_pc = "idle"
    /\ aud_nevents < MaxEvents
    /\ aud_nevents' = aud_nevents + 1
    /\ audio_state' = ESP_HF_AUDIO_STATE_DISCONNECTED
    /\ hf_pc' = "bt_app_send_data_shut_down"
    /\ hf_step' = 1
    /\ aud_teardown' = << >>
    /\ UNCHANGED << audvars, aud_handle, aud_live, aud_events, synth >>

\* bt_app_hf_cb, ESP_HF_AUDIO_STATE_EVT with another state: neither branch
\* is taken
bt_app_hf_cb_connecting ==
    /\ hf_pc = "idle"
    /\ aud_nevents < MaxEvents
    /\ aud_nevents' = aud_nevents + 1
    /\ audio_state' = ESP_HF_AUDIO_STATE_CONNECTING
    /\ UNCHANGED << audvars, hf_pc, hf_step, aud_handle, aud_live,
                    aud_teardown, aud_events, synth >>

\* a statement of bt_app_send_data_shut_down has used a dangling handle:
\* the use is recorded, and the program aborts or goes on
UseAfterDelete(what) ==
    /\ aud_events' = aud_events \cup {what}
    /\ \/ HfAdvance(bt_app_send_data_shut_down_steps)
       \/ hf_pc' = "abort" /\ UNCHANGED hf_step
    /\ UNCHANGED << aud_live, aud_handle, aud_teardown >>

\* bt_app_send_data_shut_down, one statement at a time
bt_app_send_data_shut_down ==
    /\ hf_pc = "bt_app_send_data_shut_down"
    /\ LET st == bt_app_send_data_shut_down_steps[hf_step]
           skip == /\ HfAdvance(bt_app_send_data_shut_down_steps)
                   /\ UNCHANGED << aud_live, aud_handle, aud_teardown,
                                   aud_events >>
       IN
       \/ /\ st = "task"
          /\ IF aud_handle.s_bt_app_send_data_task_handler = "NULL"
             THEN skip
             ELSE /\ aud_live' = [aud_live EXCEPT !.task = @ - 1]
                  /\ aud_handle' = [aud_handle EXCEPT
                          !.s_bt_app_send_data_task_handler = "NULL"]
                  /\ aud_teardown' = Append(aud_teardown, "task")
                  /\ HfAdvance(bt_app_send_data_shut_down_steps)
                  /\ UNCHANGED aud_events
       \/ /\ st = "timer_stop"
          /\ CASE aud_handle.s_periodic_timer = "NULL" -> skip
               [] aud_handle.s_periodic_timer = "set" ->
                    /\ aud_live' = [aud_live EXCEPT !.armed = @ - 1]
                    /\ HfAdvance(bt_app_send_data_shut_down_steps)
                    /\ UNCHANGED << aud_handle, aud_teardown, aud_events >>
               [] aud_handle.s_periodic_timer = "dangling" ->
                    UseAfterDelete("stop_deleted_timer")
       \/ /\ st = "timer_delete"
          /\ CASE aud_handle.s_periodic_timer = "NULL" -> skip
               [] aud_handle.s_periodic_timer = "set" ->
                    /\ aud_live' = [aud_live EXCEPT !.timer = @ - 1]
                    /\ aud_handle' = [aud_handle EXCEPT
                                         !.s_periodic_timer = "dangling"]
                    /\ aud_teardown' = Append(aud_teardown, "timer")
                    /\ HfAdvance(bt_app_send_data_shut_down_steps)
                    /\ UNCHANGED aud_events
               [] aud_handle.s_periodic_timer = "dangling" ->
                    UseAfterDelete("delete_deleted_timer")
       \/ /\ st = "sem"
          /\ IF aud_handle.s_send_data_Semaphore = "NULL"
             THEN skip
             ELSE /\ aud_live' = [aud_live EXCEPT !.sem = @ - 1]
                  /\ aud_handle' = [aud_handle EXCEPT
                                       !.s_send_data_Semaphore = "NULL"]
                  /\ aud_teardown' = Append(aud_teardown, "sem")
                  /\ HfAdvance(bt_app_send_data_shut_down_steps)
                  /\ UNCHANGED aud_events
       \/ /\ st = "rb"
          /\ CASE aud_handle.s_m_rb = "NULL" -> skip
               [] aud_handle.s_m_rb = "set" ->
                    /\ aud_live' = [aud_live EXCEPT !.rb = @ - 1]
                    /\ aud_handle' = [aud_handle EXCEPT !.s_m_rb = "dangling"]
                    /\ aud_teardown' = Append(aud_teardown, "rb")
                    /\ HfAdvance(bt_app_send_data_shut_down_steps)
                    /\ UNCHANGED aud_events
               [] aud_handle.s_m_rb = "dangling" ->
                    UseAfterDelete("delete_deleted_ring_buffer")
    /\ UNCHANGED << audvars, audio_state, aud_nevents, synth >>

\* the periodic timer fires while it is armed; what the callback gives
\* is recorded
TimerFires ==
    /\ aud_live.armed > 0
    /\ hf_pc # "abort"
    /\ aud_clock < MaxLifeTicks * PCM_GENERATOR_TICK_US
    /\ bt_app_send_data_timer_cb
    /\ aud_events' = aud_events
          \cup (IF aud_live.sem = 0 THEN {"give_deleted_semaphore"} ELSE {})
          \cup (IF aud_live.task = 0 THEN {"give_without_task"} ELSE {})
    /\ UNCHANGED << audio_state, hf_pc, hf_step, aud_handle, aud_live,
                    aud_teardown, aud_nevents, synth >>

\* the generation task runs while it exists; what it touches and the
\* bytes it synthesizes are recorded
TaskRuns ==
    /\ aud_live.task > 0
    /\ hf_pc # "abort"
    /\ \/ \E malloc_ok \in BOOLEAN : bt_app_send_data_task_wake(malloc_ok)
       \/ bt_app_send_data_task_send
       \/ bt_app_send_data_task_info
    /\ aud_events' = aud_events
          \cup (IF gpc = "take" /\ aud_live.sem = 0
                THEN {"take_deleted_semaphore"} ELSE {})
          \cup (IF gpc = "take" /\ aud_live.armed = 0
                THEN {"wake_after_timer_stop"} ELSE {})
          \cup (IF gpc # "take" /\ aud_live.rb = 0
                THEN {"push_deleted_ring_buffer"} ELSE {})
    /\ synth' = IF gpc = "take" /\ gpc' = "send"
                THEN synth + frame_data_num' ELSE synth
    /\ UNCHANGED << audio_state, hf_pc, hf_step, aud_handle, aud_live,
                    aud_teardown, aud_nevents >>

\* no audio connection yet: the statics are NULL and nothing exists
AudDown ==
    /\ audio_state = "none"
    /\ hf_pc = "idle"
    /\ hf_step = 1
    /\ aud_handle = [s_periodic_timer |-> "NULL",
                     s_send_data_Semaphore |-> "NULL",
                     s_bt_app_send_data_task_handler |-> "NULL",
                     s_m_rb |-> "NULL"]
    /\ aud_live = [timer |-> 0, armed |-> 0, task |-> 0, sem |-> 0, rb |-> 0]
    /\ aud_teardown = << >>
    /\ aud_events = {}
    /\ aud_nevents = 0
    /\ synth = 0

\* after bt_app_hf_cb has handled a connected event
AudUp ==
    /\ audio_state = s_audio_code
    /\ hf_pc = "idle"
    /\ hf_step = 1
    /\ aud_handle = [s_periodic_timer |-> "set",
                     s_send_data_Semaphore |-> "set",
                     s_bt_app_send_data_task_handler |-> "set",
                     s_m_rb |-> "set"]
    /\ aud_live = [timer |-> 1, armed |-> 1, task |-> 1, sem |-> 1, rb |-> 1]
    /\ aud_teardown = << >>
    /\ aud_events = {}
    /\ aud_nevents = 1
    /\ synth = 0

\* the audio engine's variables before the audio connection
AudBoot ==
    /\ aud_clock \in BootTimes
    /\ s_audio_code = ESP_HF_AUDIO_STATE_CONNECTED
    /\ s_send_data_Semaphore = 0
    /\ s_m_rb = xRingbufferCreate
    /\ s_last_enter_time = 0
    /\ s_us_duration = 0
    /\ frame_data_num = 0
    /\ index = 0
    /\ gpc = "take"
    /\ gbuf = << >>
    /\ done = TRUE
    /\ ready = FALSE
    /\ opc = "idle"
    /\ o_sz = 0
    /\ o_item_size = 0
    /\ p_buf = << >>
    /\ o_ret = 0 - 1

\* audio connections that come up and go down in turn: a connected event
\* arrives only when no connection is up, a disconnected one only when one
\* is, with the timer and the generation task running
AudLifeNext ==
    \/ /\ audio_state \notin ConnectedStates
       /\ \E state \in ConnectedStates : bt_app_hf_cb_connected(state)
    \/ bt_app_send_data
    \/ /\ audio_state \in ConnectedStates
       /\ bt_app_hf_cb_disconnected
    \/ bt_app_send_data_shut_down
    \/ TimerFires
    \/ TaskRuns

\* audio-state events in any order, as far as the objects they create and
\* delete go
AudEventsNext ==
    \/ \E state \in ConnectedStates : bt_app_hf_cb_connected(state)
    \/ bt_app_send_data
    \/ bt_app_hf_cb_disconnected
    \/ bt_app_hf_cb_connecting
    \/ bt_app_send_data_shut_down

Init ==
    WDInit /\ WDStarted /\ PrsInit /\ SplitIdle /\ CmdIdle /\ AudIdle /\ AudDown

SpecWD ==
    Init /\ [][WDNext /\ UNCHANGED << prsvars, splitvars, cmdvars, audvars,
                                     lifevars >>]_vars

\* the worker task's next step
WorkerStep ==
    /\ \/ bt_app_task_handler_receive
       \/ bt_app_work_dispatched
       \/ bt_app_task_handler_free
    /\ UNCHANGED << prsvars, splitvars, cmdvars, audvars, lifevars >>

\* the dispatcher with a worker task that the scheduler does not starve
\* and callbacks that return
SpecWDFair == SpecWD /\ WF_vars(WorkerStep)

SpecPrs == Init /\ [][PrsNext /\ UNCHANGED << cmdvars, audvars, lifevars >>]_vars

InitSplit ==
    WDInit /\ WDStarted /\ PrsInit /\ SplitInit /\ CmdIdle /\ AudIdle /\ AudDown

SpecSplit ==
    InitSplit /\ [][SplitNext /\ UNCHANGED << cmdvars, audvars, lifevars >>]_vars

InitCmd ==
    WDInit /\ WDStarted /\ PrsInit /\ SplitIdle /\ CmdInit /\ AudIdle /\ AudDown

SpecCmd == InitCmd /\ [][CmdNext /\ UNCHANGED << audvars, lifevars >>]_vars

InitAud ==
    WDInit /\ WDStarted /\ PrsInit /\ SplitIdle /\ CmdIdle /\ AudRunning /\ AudUp

SpecAud ==
    InitAud /\ [][AudNext /\ UNCHANGED << wdvars, prsvars, splitvars, cmdvars,
                                        lifevars >>]_vars

InitWDLife ==
    WDInit /\ WDBoot /\ PrsInit /\ SplitIdle /\ CmdIdle /\ AudIdle /\ AudDown

\* the dispatcher from the entry of app_main to the return of
\* bt_app_task_shut_down
SpecWDLife ==
    InitWDLife /\ [][WDLifeNext /\ UNCHANGED << prsvars, splitvars, cmdvars,
                                                audvars, audlifevars >>]_vars

InitAudLife ==
    WDInit /\ WDStarted /\ PrsInit /\ SplitIdle /\ CmdIdle /\ AudBoot /\ AudDown

\* the audio engine from before the audio connection to the return of
\* bt_app_send_data_shut_down
SpecAudLife ==
    InitAudLife /\ [][AudLifeNext /\ UNCHANGED << wdvars, prsvars, splitvars,
                                                  cmdvars, wdlifevars >>]_vars

\* the objects of the audio engine under audio-state events in any order
SpecAudEvents ==
    InitAudLife /\ [][AudEventsNext /\ UNCHANGED << wdvars, prsvars, splitvars,
                                                    cmdvars, wdlifevars >>]_vars

-----------------------------------------------------------------------------
(* Work dispatcher: properties *)

\* the (id, callback, event) triple of a history record
Triple(r) == << r.id, r.cb, r.event >>
Triples(h) == [i \in 1..Len(h) |-> Triple(h[i])]

\* the successful enqueues whose message carries a callback
EnqWithCallback == SelectSeq(enq, LAMBDA r : r.cb # "NULL")

\* C1: at every moment the sequence of (callback, event) pairs invoked by
\* the worker is a prefix of the sequence of successful enqueues, in
\* enqueue order: nothing is invoked twice, skipped or reordered, and a
\* message that was never placed on the queue is never invoked.
C1_FifoPrefix ==
    /\ Len(invoked) <= Len(EnqWithCallback)
    /\ Triples(invoked) = SubSeq(Triples(EnqWithCallback), 1, Len(invoked))
    /\ \A i \in 1..Len(invoked) :
           \A p \in Producers :
               (ret[p].id = invoked[i].id) => ret[p].val

\* two producers' messages have both been invoked, while a third dispatch
\* failed
C1_Witness ==
    /\ Len(invoked) >= 2
    /\ invoked[1].cb # invoked[2].cb
    /\ \E p \in Producers : ret[p].why \in {"alloc", "args", "full"}

\* C2: for a dispatch with param_len > 0 and no deep-copy callback, the
\* bytes the callback sees through its parameter pointer are the first
\* param_len bytes of the caller's buffer as they were at the moment of the
\* call, whatever the caller wrote into its buffer afterwards.
C2_ParamSnapshot ==
    \A i \in 1..Len(invoked) : \A j \in 1..Len(enq) :
        (enq[j].id = invoked[i].id /\ Len(enq[j].snap.bytes) > 0
            /\ ~enq[j].snap.copy)
        => SubSeq(invoked[i].seen, 1, Len(enq[j].snap.bytes))
               = enq[j].snap.bytes

\* a callback has seen parameter bytes that differ from what the caller's
\* buffer held when the callback ran
C2_Witness ==
    \E i \in 1..Len(invoked) :
        /\ Len(invoked[i].seen) > 0
        /\ invoked[i].overwritten

\* a step in which bt_app_work_dispatch returns to producer p
Returns(p) == ret'[p].id # ret[p].id

C3_ReturnStep ==
    \A p \in Producers :
        Returns(p) =>
            /\ ppc'[p] = "idle"
            /\ ret'[p].val <=>
                   (/\ ppc[p] # "idle"
                    /\ bt_app_task_queue' = Append(bt_app_task_queue, pmsg[p]))
            /\ ret'[p].why \in {"alloc", "args", "full"} => ~ret'[p].val
            /\ ~ret'[p].val =>
                   /\ bt_app_task_queue' = bt_app_task_queue
                   /\ wpc' = wpc /\ wmsg' = wmsg /\ invoked' = invoked

\* C3: bt_app_work_dispatch returns true exactly when its message was
\* placed on the queue; on allocation failure, or with the queue still full
\* after the bounded wait, it returns false, the caller is released (a
\* sender blocked on the full queue can always either post or time out),
\* and the queue and the worker are left as they were.
C3_ReturnsTrueIffEnqueued ==
    /\ [][C3_ReturnStep]_vars
    /\ [](\A p \in Producers :
             ppc[p] = "blocked" =>
                 ENABLED (xQueueSend_unblocked(p) \/ xQueueSend_timeout(p)))

\* a dispatch has failed on the full queue, which still holds its messages
C3_Witness ==
    \E p \in Producers :
        /\ ret[p].why = "full"
        /\ ~ret[p].val
        /\ ppc[p] = "idle"
        /\ Len(bt_app_task_queue) = QueueLength

-----------------------------------------------------------------------------
(* Frame parser: properties *)

\* a step that feeds one byte to hf_msg_parse, the byte, its result code
\* and the number of callback invocations it made
IsFeed == fed' # fed
FedByte == fed'[Len(fed')]
FeedResult == results'[Len(results')]
Called == Len(frames') - Len(frames)

\* reset to IDLE with cursor and match indices zero
IsReset(p) == p.state = "IDLE" /\ p.cnt = 0 /\ p.h_idx = 0 /\ p.t_idx = 0

ExampleOk == << "h", "f", " ", "c", "o", "n", ";" >>
ExampleNoHeader == << "x", "f", " ", "c", "o", "n", ";" >>

C4_Step ==
    IsFeed =>
        /\ (prs.state = "PAYL" /\ FedByte = ";") =>
               /\ Called = 1
               /\ LET f == frames'[Len(frames')] IN
                     /\ f.frame = Append(SubSeq(prs.buf, 1, prs.cnt), ";")
                     /\ SubSeq(f.frame, 1, 3) = << "h", "f", " " >>
                     /\ f.frame = SubSeq(fed', Len(fed') - f.len + 1, Len(fed'))
                     /\ f.len = prs.cnt + 1
                     /\ f.len = Len(f.frame)
                     /\ f.nul = NUL
               /\ IsReset(prs')
               /\ FeedResult = "OK"
        /\ Called \in {0, 1}
        /\ (Called = 1) <=> (FeedResult = "OK")

\* C4: in PAYLOAD the tail byte ';' makes hf_msg_parse invoke the callback
\* exactly once with the whole accumulated frame (header, payload, tail,
\* NUL-terminated) and its byte count, reset the parser to IDLE with cursor
\* and match indices zero and return Ok; the callback is invoked in no call
\* that returns another code, and Ok is returned in no call that does not
\* invoke it.  "hf con;" gives one callback with length 7.
C4_TailCompletesFrame ==
    /\ [][C4_Step]_vars
    /\ [](fed = ExampleOk =>
             /\ Len(frames) = 1
             /\ frames[1].frame = ExampleOk
             /\ frames[1].len = 7
             /\ results[7] = "OK"
             /\ \A i \in 1..6 : results[i] = "IN_PROGRESS"
             /\ IsReset(prs))

\* "hf con;" has been fed and its frame delivered
C4_Witness == fed = ExampleOk /\ Len(frames) = 1 /\ frames[1].len = 7

\* C5: if "hf " occurs at a position where the parser is scanning for or
\* matching a header (the byte that caused HeaderSyncFailed or
\* BufferOverflow included), the frame that begins there is delivered when
\* its ';' arrives, provided it fits the length limit.
C5_ResyncOnNextHeader ==
    \A i \in 1..Len(fed) : \A j \in 1..Len(fed) :
        (/\ i + 2 < j
         /\ SubSeq(fed, i, i + 2) = << "h", "f", " " >>
         /\ (before[i] \in {"IDLE", "HDR"} \/ results[i] = "BUF_OVERFLOW")
         /\ fed[j] = ";"
         /\ \A k \in (i + 3)..(j - 1) : fed[k] # ";"
         /\ j - i + 1 <= HF_MSG_LEN_MAX)
        => \E n \in 1..Len(frames) :
               frames[n].at = j /\ frames[n].frame = SubSeq(fed, i, j)

C6_Step ==
    IsFeed =>
        ((prs.state = "PAYL" /\ prs.cnt + 1 >= HF_MSG_LEN_MAX /\ FedByte # ";")
         => /\ IsReset(prs')
            /\ FeedResult = "BUF_OVERFLOW"
            /\ Called = 0)

\* C6: when in PAYLOAD the accumulated byte count reaches HF_MSG_LEN_MAX
\* with the byte just fed not completing the tail, hf_msg_parse resets the
\* parser to IDLE (cursor and indices zero), returns BufferOverflow and
\* invokes no callback; the next call starts scanning for a header.
C6_OverflowResets ==
    /\ [][C6_Step]_vars
    /\ [](\A i \in 1..Len(results) :
             results[i] = "BUF_OVERFLOW" =>
                 /\ i >= HF_MSG_LEN_MAX
                 /\ \A k \in (i - HF_MSG_LEN_MAX + 4)..i : fed[k] # ";"
                 /\ \A n \in 1..Len(frames) :
                        frames[n].at \notin (i - HF_MSG_LEN_MAX + 1)..i
                 /\ (i < Len(fed) => before[i + 1] = "IDLE"))

\* an oversized frame has been discarded
C6_Witness ==
    /\ results # << >>
    /\ results[Len(results)] = "BUF_OVERFLOW"
    /\ IsReset(prs)

C7_Step ==
    (IsFeed /\ prs.state = "IDLE") =>
        /\ Called = 0
        /\ (FedByte = "h") =>
               /\ prs'.state = "HDR"
               /\ prs'.cnt = 1
               /\ At(prs'.buf, 0) = "h"
               /\ FeedResult = "IN_PROGRESS"
        /\ (FedByte # "h") =>
               /\ prs' = prs
               /\ FeedResult = "HDR_UNDETECTED"

\* C7: in IDLE a byte 'h' moves the parser to HEADER with that byte
\* accumulated and returns InProgress; any other byte returns
\* HeaderUndetected, leaves every parser field unchanged and invokes no
\* callback.  So a stream that never shows 'h' while the parser is IDLE
\* (such as "xf con;") yields HeaderUndetected for every byte and no
\* callback.
C7_IdleScansForHeader ==
    /\ [][C7_Step]_vars
    /\ []((\A i \in 1..Len(fed) : before[i] = "IDLE" => fed[i] # "h") =>
             /\ \A i \in 1..Len(fed) : results[i] = "HDR_UNDETECTED"
             /\ frames = << >>
             /\ IsReset(prs))

\* "xf con;" has been fed
C7_Witness ==
    /\ fed = ExampleNoHeader
    /\ \A i \in 1..7 : results[i] = "HDR_UNDETECTED"

C8_Step ==
    (IsFeed /\ prs.state = "HDR") =>
        LET expected == IF prs.h_idx = 1 THEN "f" ELSE " " IN
        /\ Called = 0
        /\ prs.h_idx \in {1, 2}
        /\ (FedByte = expected) =>
               /\ At(prs'.buf, prs.cnt) = FedByte
               /\ prs'.cnt = prs.cnt + 1
               /\ prs'.h_idx = prs.h_idx + 1
               /\ FeedResult = "IN_PROGRESS"
               /\ prs'.state = (IF prs.h_idx = 2 THEN "PAYL" ELSE "HDR")
               /\ (prs'.state = "PAYL") =>
                      SubSeq(prs'.buf, 1, 3) = << "h", "f", " " >>
        /\ (FedByte # expected) =>
               /\ IsReset(prs')
               /\ FeedResult = "HDR_SYNC_FAILED"

\* C8: in HEADER a byte equal to the next expected header byte is
\* accumulated and returns InProgress, the parser moving to PAYLOAD exactly
\* when all of 'h', 'f', ' ' have been matched; any other byte resets the
\* parser to IDLE (cursor and indices zero), returns HeaderSyncFailed and
\* invokes no callback.
C8_HeaderMatching ==
    /\ [][C8_Step]_vars
    /\ [](prs.state = "PAYL" => /\ prs.h_idx = 3
                                /\ prs.cnt >= 3
                                /\ SubSeq(prs.buf, 1, 3) = << "h", "f", " " >>)

\* a header has failed to match and a later one has been matched in full
C8_Witness ==
    /\ \E i \in 1..Len(results) : results[i] = "HDR_SYNC_FAILED"
    /\ prs.state = "PAYL"

\* the parser after hf_msg_parser_reset_state and the registration of the
\* callback, with nothing fed
FreshParser ==
    [state |-> "IDLE", buf |-> [i \in 1..HF_MSG_BUF_SIZE |-> NUL],
     cnt |-> 0, h_idx |-> 0, t_idx |-> 0, callback |-> "hf_msg_args_parser"]

\* the whole stream s fed in one uninterrupted loop of hf_msg_parse calls
RECURSIVE ParseLoop(_, _, _)
ParseLoop(s, n, acc) ==
    IF n > Len(s) THEN acc
    ELSE LET r == hf_msg_parse(s[n], acc.prs)
         IN ParseLoop(s, n + 1,
                [prs |-> r.prs,
                 results |-> Append(acc.results, r.err),
                 frames |-> acc.frames \o
                     [i \in 1..Len(r.cb) |->
                         [frame |-> r.cb[i].frame, len |-> r.cb[i].len,
                          nul |-> r.cb[i].nul, at |-> n]]])

ParseAll(s) ==
    ParseLoop(s, 1, [prs |-> FreshParser, results |-> << >>, frames |-> << >>])

-----------------------------------------------------------------------------
(* Argument splitter: properties *)

WhiteSpace == {" ", "TAB", "LF", "VT", "FF", "CR"}

\* the bytes of [start, end) and their number
SplitText == SubSeq(split_buf, 1, Len(split_buf) - 1)
SplitLen == Len(split_buf) - 1

\* the positions (from 1) at which a maximal run of non-whitespace bytes
\* begins, and the position at which the run that begins at s ends
RunStarts ==
    { i \in 1..SplitLen :
        /\ SplitText[i] \notin WhiteSpace
        /\ (i = 1 \/ SplitText[i - 1] \in WhiteSpace) }
RunEnd(s) ==
    CHOOSE e \in s..SplitLen :
        /\ \A i \in s..e : SplitText[i] \notin WhiteSpace
        /\ (e = SplitLen \/ SplitText[e + 1] \in WhiteSpace)
\* the m-th run, in order
NthStart(m) ==
    CHOOSE s \in RunStarts : Cardinality({t \in RunStarts : t < s}) = m - 1

Min(a, b) == IF a < b THEN a ELSE b

\* the C string that begins at index p of buf
RECURSIVE CString(_, _)
CString(buf, p) ==
    IF p >= Len(buf) \/ At(buf, p) = NUL THEN << >>
    ELSE << At(buf, p) >> \o CString(buf, p + 1)

\* the arguments returned, as strings
SplitArgs == [m \in 1..split_out.argn |-> CString(split_out.buf, split_out.argv[m])]

\* C10: hf_msg_split_args returns in argv, in order, the first min(k, max)
\* maximal runs of non-whitespace bytes of [start, end), k the number of
\* runs and max the incoming *argn, and sets *argn to that count; no
\* argument is empty, each is terminated in place at the first whitespace
\* byte after it, the other bytes are left as they were and the runs beyond
\* max are ignored.  "  ind 0 1 2 3  " gives ["ind","0","1","2","3"].
C10_SplitArgs ==
    split_out # NoSplit =>
        LET n == Min(Cardinality(RunStarts), split_argn) IN
        /\ split_out.argn = n
        /\ \A m \in 1..n :
               LET s == NthStart(m)
                   e == RunEnd(s)
               IN /\ split_out.argv[m] = s - 1
                  /\ SplitArgs[m] = SubSeq(SplitText, s, e)
                  /\ SplitArgs[m] # << >>
                  /\ split_out.buf[e + 1] = NUL
        /\ \A i \in 1..Len(split_buf) :
               split_out.buf[i] # split_buf[i] =>
                   \E m \in 1..n : i = RunEnd(NthStart(m)) + 1
        /\ (SplitText = SplitExample /\ split_argn >= 5) =>
               SplitArgs = << << "i", "n", "d" >>, << "0" >>, << "1" >>,
                              << "2" >>, << "3" >> >>

\* an input with leading, repeated and trailing whitespace and more runs
\* than the limit allows has been split
C10_Witness ==
    /\ split_out # NoSplit
    /\ split_argn = 1
    /\ SplitText = << " ", "a", "TAB", " ", "b" >>
    /\ SplitArgs = << << "a" >> >>
    /\ split_out.buf[3] = NUL

\* ---------------------------------------------------------------------
\* Command dispatch: C11 - C16
\* ---------------------------------------------------------------------

\* the arguments of the frame in cmd_buf, as strings; CmdArgv[1] is
\* argument[0], the command
CmdArgv ==
    LET r == hf_msg_args_parser(cmd_buf, Len(cmd_buf) - 1)
    IN [i \in 1..r.argn |-> CString(r.buf, r.argv[i])]

\* the payload of the frame in cmd_buf
CmdPayload == SubSeq(cmd_buf, HF_MSG_HDR_LEN + 1, Len(cmd_buf) - 2)

CmdDone == cmd_out # NoCmd

\* the table entries whose string is s, whole and case-sensitive
TblHits(s) == { i \in 1..Len(hf_cmd_tbl) : hf_cmd_tbl[i].str = s }

\* the value a handler reads from an argument word: the decimal integer it
\* begins with, if it begins with one
HasValue(s) == sscanf_d(s).n = 1
ValueOf(s) == sscanf_d(s).val

\* C11: for a completed frame with at least one argument,
\* hf_msg_args_parser invokes exactly one handler, the one of the table
\* entry whose string equals argument[0] exactly (neither a prefix such as
\* "co" nor an extension such as "conn" matches), and passes it the
\* argument count and vector; when no entry matches it prints
\* "unsupported command" and the usage text and invokes no handler and no
\* audio-gateway action.
C11_ExactCommandLookup ==
    (CmdDone /\ Len(CmdArgv) >= 1) =>
        /\ Cardinality(TblHits(CmdArgv[1])) <= 1
        /\ \A i \in TblHits(CmdArgv[1]) :
               /\ Len(cmd_out.calls) = 1
               /\ cmd_out.calls[1].handler = hf_cmd_tbl[i].handler
               /\ cmd_out.calls[1].argn = Len(CmdArgv)
               /\ cmd_out.calls[1].argv = CmdArgv
               /\ \A j \in 1..Len(cmd_out.out) :
                      cmd_out.out[j] # "unsupported command"
        /\ TblHits(CmdArgv[1]) = {} =>
               cmd_out = CmdTrace(<< >>, << >>,
                                  << "unsupported command", "usage" >>)
        /\ CmdArgv[1] \in { << "c", "o" >>, << "c", "o", "n", "n" >>,
                            << "C", "O", "N" >> } =>
               cmd_out.calls = << >> /\ cmd_out.acts = << >>

\* "hf ind 0 1;" went to the ind handler with its three arguments and
\* "ind" matched no other entry
C11_Witness ==
    /\ CmdDone
    /\ CmdPayload = << "i", "n", "d", " ", "0", " ", "1" >>
    /\ Len(cmd_out.calls) = 1
    /\ cmd_out.calls[1].handler = "hf_ind_change_handler"
    /\ cmd_out.calls[1].argn = 3

\* C12: a complete frame whose payload is empty or only whitespace
\* ("hf ;", "hf   ;") gives zero arguments and hf_msg_args_parser does
\* nothing: no handler, no "unsupported command" notice or usage text, no
\* audio-gateway action.
C12_EmptyPayloadIgnored ==
    (CmdDone /\ \A i \in 1..Len(CmdPayload) : CmdPayload[i] \in WhiteSpace) =>
        /\ Len(CmdArgv) = 0
        /\ cmd_out = CmdTrace(<< >>, << >>, << >>)

\* "hf   ;" has been handed to hf_msg_args_parser
C12_Witness ==
    /\ CmdDone
    /\ CmdPayload = << " ", " " >>
    /\ cmd_out.out = << >>

\* the vu arguments are two values, target in {0,1} and volume in [0,15]
VuValid ==
    /\ Len(CmdArgv) = 3
    /\ HasValue(CmdArgv[2]) /\ ValueOf(CmdArgv[2]) \in {0, 1}
    /\ HasValue(CmdArgv[3]) /\ ValueOf(CmdArgv[3]) \in 0..15

\* the ind arguments are four values: call in [0,1], callsetup in [0,3],
\* ntk in [0,1], signal in [0,5]
IndValid ==
    /\ Len(CmdArgv) = 5
    /\ HasValue(CmdArgv[2]) /\ ValueOf(CmdArgv[2]) \in 0..1
    /\ HasValue(CmdArgv[3]) /\ ValueOf(CmdArgv[3]) \in 0..3
    /\ HasValue(CmdArgv[4]) /\ ValueOf(CmdArgv[4]) \in 0..1
    /\ HasValue(CmdArgv[5]) /\ ValueOf(CmdArgv[5]) \in 0..5

AteValid ==
    /\ Len(CmdArgv) = 3
    /\ HasValue(CmdArgv[2]) /\ ValueOf(CmdArgv[2]) \in 0..7
    /\ HasValue(CmdArgv[3]) /\ ValueOf(CmdArgv[3]) \in 0..32

\* C14: the ate handler issues the extended-error report only when called
\* with exactly 2 arguments, response in [0,7] and error in [0,32]; a
\* response code outside [0,7] (8, -1) or an error code outside [0,32]
\* makes it return a non-zero status without the extended-error action.
C14_AteValidation ==
    (CmdDone /\ Len(CmdArgv) >= 1 /\ CmdArgv[1] = << "a", "t", "e" >>) =>
        /\ Len(cmd_out.calls) = 1
        /\ ~AteValid => (cmd_out.calls[1].status # 0 /\ cmd_out.acts = << >>)

\* the d arguments are one number
DialValid == Len(CmdArgv) = 2

\* C15: the d handler issues the dial action if and only if exactly one
\* number argument is supplied; with no number or with extra arguments it
\* issues no dial action and returns a non-zero status, so that the status
\* tells success from validation failure.
C15_DialValidation ==
    (CmdDone /\ Len(CmdArgv) >= 1 /\ CmdArgv[1] = << "d" >>) =>
        /\ Len(cmd_out.calls) = 1
        /\ IF DialValid
           THEN /\ cmd_out.calls[1].status = 0
                /\ cmd_out.acts =
                       << Act("esp_hf_ag_out_call", << 1, 0, 1, 2, 0 >>,
                              CmdArgv[2]) >>
           ELSE /\ cmd_out.calls[1].status # 0
                /\ cmd_out.acts = << >>

\* the gateway calls of the command catalog, by function
Gw(api) == Act(api, << >>, << >>)
GwSwitch(api, on) == Act(api, << on >>, << >>)

\* the audio-gateway actions the command catalog gives each zero-argument
\* command
Catalog(w) ==
    CASE w = << "c", "o", "n" >> ->
            << Gw("esp_hf_ag_slc_connect"), Gw("esp_hf_ag_audio_connect") >>
      [] w = << "d", "i", "s" >> -> << Gw("esp_hf_ag_slc_disconnect") >>
      [] w = << "c", "o", "n", "a" >> -> << Gw("esp_hf_ag_audio_connect") >>
      [] w = << "d", "i", "s", "a" >> -> << Gw("esp_hf_ag_audio_disconnect") >>
      [] w = << "v", "r", "o", "n" >> -> << GwSwitch("esp_hf_ag_vra_control", 1) >>
      [] w = << "v", "r", "o", "f", "f" >> -> << GwSwitch("esp_hf_ag_vra_control", 0) >>
      [] w = << "i", "r", "o", "n" >> -> << GwSwitch("esp_hf_ag_bsir", 1) >>
      [] w = << "i", "r", "o", "f", "f" >> -> << GwSwitch("esp_hf_ag_bsir", 0) >>
      [] w = << "a", "c" >> ->
            << Act("esp_hf_ag_answer_call", << 1, 0, 1, 1, 0 >>, CallNumber) >>
      [] w = << "r", "c" >> ->
            << Act("esp_hf_ag_reject_call", << 0, 0, 0, 0, 0 >>, CallNumber) >>
      [] w = << "e", "n", "d" >> ->
            << Act("esp_hf_ag_end_call", << 0, 0, 0, 0, 0 >>, CallNumber) >>
      [] w = << "h" >> -> << >>

ZeroArgCmds ==
    { << "c", "o", "n" >>, << "d", "i", "s" >>, << "c", "o", "n", "a" >>,
      << "d", "i", "s", "a" >>, << "v", "r", "o", "n" >>,
      << "v", "r", "o", "f", "f" >>, << "i", "r", "o", "n" >>,
      << "i", "r", "o", "f", "f" >>, << "a", "c" >>, << "r", "c" >>,
      << "e", "n", "d" >>, << "h" >> }

\* C16: each zero-argument command issues exactly the audio-gateway
\* action(s) of the command catalog and no other: con issues connect and
\* then audio-connect, once each; dis disconnect; cona audio-connect; disa
\* audio-disconnect; vron/vroff voice recognition on/off; iron/iroff
\* in-band ring on/off; ac/rc/end answer/reject/end call; h none.
C16_ZeroArgCommands ==
    (CmdDone /\ Len(CmdArgv) >= 1 /\ CmdArgv[1] \in ZeroArgCmds) =>
        /\ Len(cmd_out.calls) = 1
        /\ cmd_out.calls[1].status = 0
        /\ cmd_out.acts = Catalog(CmdArgv[1])

\* "hf con;" has been dispatched: connect, then audio-connect
C16_Witness ==
    /\ CmdDone
    /\ CmdPayload = << "c", "o", "n" >>
    /\ Len(cmd_out.acts) = 2
    /\ cmd_out.acts[1].api = "esp_hf_ag_slc_connect"
    /\ cmd_out.acts[2].api = "esp_hf_ag_audio_connect"

\* ---------------------------------------------------------------------
\* Audio pacing engine: C17 - C20
\* ---------------------------------------------------------------------

\* the generation task wakes in this step
IsWake == gpc = "take" /\ s_send_data_Semaphore = 1 /\ s_send_data_Semaphore' = 0

C17_Step ==
    IsWake =>
        LET elapsed_us == aud_clock - s_last_enter_time
            bytes_per_block ==
                IF s_audio_code = ESP_HF_AUDIO_STATE_CONNECTED_MSBC THEN 240 ELSE 120
        IN /\ frame_data_num' = (elapsed_us \div 7500) * bytes_per_block
           /\ elapsed_us < 7500 => frame_data_num' = 0
           /\ frame_data_num' % bytes_per_block = 0
           /\ gpc' = "send" => Len(gbuf') * Cell = frame_data_num'

\* C17: for a fixed codec mode, the number of bytes generated on each wake
\* of the generation task is floor(elapsed_us / 7500) * bytes_per_block,
\* elapsed_us being the time since the last-production instant and
\* bytes_per_block 240 for mSBC and 120 for CVSD; it is 0 when
\* elapsed_us < 7500 and always a whole multiple of bytes_per_block.
C17_BytesPerWake == [][C17_Step]_vars

\* a wideband wake that found two whole blocks elapsed and generated 480
\* bytes
C17_Witness ==
    /\ s_audio_code = ESP_HF_AUDIO_STATE_CONNECTED_MSBC
    /\ gpc = "send"
    /\ s_us_duration >= 15000
    /\ s_us_duration < 22500
    /\ frame_data_num = 480
    /\ Len(gbuf) = 4

C18_Step ==
    /\ (opc = "idle" /\ opc' = "checked") =>
           /\ s_m_rb' = s_m_rb
           /\ o_item_size' = s_m_rb.cnt
           /\ \A k \in 1..Len(p_buf') : p_buf'[k] = STALE
    /\ (opc = "checked" /\ opc' # "checked" /\ o_item_size < o_sz) =>
           /\ opc' = "idle"
           /\ o_ret' = 0
           /\ p_buf' = p_buf
           /\ s_m_rb' = s_m_rb

\* C18: a pull request for N bytes made when the occupancy is below N
\* returns 0 immediately, copies nothing into the caller's buffer and
\* leaves the ring buffer contents and occupancy unchanged, under any
\* interleaving with the generation task.
C18_ShortPullReturnsZero == [][C18_Step]_vars

\* a pull of 240 bytes found 120 waiting and returned 0, although the
\* generation task had pushed more before it returned
C18_Witness ==
    /\ opc = "idle"
    /\ o_ret = 0
    /\ o_sz = 240
    /\ o_item_size = 120
    /\ s_m_rb.cnt >= 240
    /\ \A k \in 1..Len(p_buf) : p_buf[k] = STALE

\* the n oldest bytes waiting in the ring buffer, oldest first
Oldest(rb, n) ==
    [k \in 1..(n \div Cell) |->
        rb.store[((rb.rd \div Cell) + k - 1) % RingbufCells]]

C19_Step ==
    /\ (opc = "checked" /\ opc' # "checked" /\ o_item_size >= o_sz) =>
           /\ s_m_rb'.cnt = s_m_rb.cnt - o_sz
           /\ p_buf' = Oldest(s_m_rb, o_sz)
    /\ (opc = "copied" /\ opc' # "copied") =>
           /\ o_ret' = o_sz
           /\ p_buf' = p_buf
           /\ s_m_rb'.cnt = s_m_rb.cnt

\* C19: a pull request for N bytes made when the occupancy is at least N
\* removes exactly N bytes from the ring buffer, copies exactly those N
\* oldest bytes in FIFO order into the caller's buffer and returns N, for
\* every position of the read cursor, including when the buffered bytes
\* wrap around the end of the circular storage.
C19_PullReturnsOldest == [][C19_Step]_vars

\* C20: in every reachable state, under sustained production and any
\* interleaving of pushes and pull requests, the ring buffer occupancy
\* stays between 0 and the configured capacity.
C20_OccupancyBounded ==
    /\ s_m_rb.cnt >= 0
    /\ s_m_rb.cnt + s_m_rb.held <= ESP_HFP_RINGBUF_SIZE

\* the ring buffer is full and the generation task's push has just been
\* refused
C20_Witness ==
    /\ s_m_rb.cnt = ESP_HFP_RINGBUF_SIZE
    /\ gpc = "info"
    /\ ~done

\* ---------------------------------------------------------------------
\* Audio pacing engine: C21, C27 - C30
\* ---------------------------------------------------------------------

\* the free space of the ring buffer
FreeSpace == ESP_HFP_RINGBUF_SIZE - s_m_rb.cnt - s_m_rb.held

C21_Step ==
    /\ (gpc = "send" /\ gpc' # "send" /\ FreeSpace < frame_data_num) =>
           /\ s_m_rb' = s_m_rb
           /\ gbuf' = << >>
           /\ gpc' = "info"
           /\ s_last_enter_time' = s_last_enter_time
           /\ index' = index
    /\ (gpc = "info" /\ gpc' # "info") =>
           /\ gpc' = "take"
           /\ s_m_rb' = s_m_rb
    /\ gpc = "send" => ENABLED bt_app_send_data_task_send
    /\ gpc = "info" => ENABLED bt_app_send_data_task_info

\* C21: when the non-blocking push finds less free space in the ring
\* buffer than the freshly generated chunk, the whole chunk is discarded:
\* ring buffer contents and occupancy are unchanged, the chunk is neither
\* retried on a later wake nor stored elsewhere, the generation task does
\* not block, and it goes on to serve the next wake.
C21_DropOnFull == [][C21_Step]_vars

\* a chunk has been dropped and the task is back at its semaphore
C21_Witness ==
    /\ ~done
    /\ gpc = "take"
    /\ gbuf = << >>
    /\ frame_data_num > FreeSpace

C27_Step ==
    (gpc = "info" /\ gpc' # "info" /\ ~done) => ~ready'

\* C27: on a generation wake whose push attempt failed, no data-ready
\* notification is sent to the audio transport: the occupancy check and
\* the notification follow successful pushes only.
C27_NoNotifyAfterDrop == [][C27_Step]_vars

C28_Step ==
    /\ (gpc = "send" /\ gpc' # "send") => gpc' = "info"
    /\ (gpc = "info" /\ gpc' # "info" /\ done) =>
           ready' = (s_m_rb.cnt >=
                        IF s_audio_code = ESP_HF_AUDIO_STATE_CONNECTED_MSBC
                        THEN 240 ELSE 120)

\* C28: after every successful push the generation task reads the current
\* ring buffer occupancy and sends the data-ready notification if and only
\* if that occupancy is at least the active codec's block size (240 bytes
\* wideband, 120 narrowband); if a concurrent pull has drained the buffer
\* below one block between the push and the check, none is sent.
C28_NotifyIffBlockWaiting == [][C28_Step]_vars

\* the first narrowband block was pushed, a pull took it before the
\* occupancy check, and no notification was sent
C28_Witness ==
    /\ s_audio_code = ESP_HF_AUDIO_STATE_CONNECTED
    /\ aud_clock = 8000
    /\ s_last_enter_time = 7500
    /\ index = 120
    /\ gpc = "take"
    /\ done
    /\ ~ready
    /\ s_m_rb.cnt = 0
    /\ s_m_rb.rd = 120

C29_Step ==
    IsWake =>
        LET elapsed_us == aud_clock - s_last_enter_time
            blocks == elapsed_us \div 7500
        IN /\ s_last_enter_time' = s_last_enter_time + blocks * 7500
           /\ aud_clock' - s_last_enter_time' >= 0
           /\ aud_clock' - s_last_enter_time' < 7500
           /\ s_last_enter_time' \div 7500 = aud_clock' \div 7500
           /\ s_last_enter_time' % 7500 = 0

\* C29: every generation wake advances the last-production instant by
\* exactly blocks * 7500 us with blocks = floor(elapsed_us / 7500), so
\* after each wake 0 <= now - last_production < 7500 us and the blocks
\* accounted for since the session's start instant (0 here) number
\* floor((now - start) / 7500): no drift accumulates.
C29_NoDrift == [][C29_Step]_vars

\* wakes at 8000 us and 16000 us: the 500 us left over by the first were
\* counted by the second
C29_Witness ==
    /\ aud_clock = 16000
    /\ s_last_enter_time = 15000
    /\ s_us_duration = 8500
    /\ frame_data_num > 0

C30_Step ==
    (IsWake /\ aud_clock - s_last_enter_time < 7500) =>
        /\ s_last_enter_time' = s_last_enter_time
        /\ index' = index
        /\ s_m_rb' = s_m_rb
        /\ gbuf' = gbuf
        /\ gpc' = "take"
        /\ ~ready'

\* C30: on a wake where less than one block duration has elapsed since the
\* last-production instant the generation task performs no work: the
\* last-production instant, the waveform index and the ring buffer are
\* unchanged and no data-ready notification is sent.
C30_ShortWakeDoesNothing == [][C30_Step]_vars

\* the wake of the first tick, 4000 us into the session
C30_Witness ==
    /\ aud_clock = 4000
    /\ s_us_duration = 4000
    /\ s_send_data_Semaphore = 0
    /\ frame_data_num = 0
    /\ gpc = "take"
    /\ index = 0

\* ---------------------------------------------------------------------
\* Work dispatcher: C24
\* ---------------------------------------------------------------------

\* C24: if the worker is running, is scheduled fairly and every callback
\* returns, then every message whose dispatch returned true eventually has
\* its callback invoked, and the queue is eventually empty once producers
\* stop; with the queue empty the worker blocks without invoking anything.
C24_WorkerDrainsQueue ==
    /\ \A n \in 1..MaxDispatch :
           (Len(EnqWithCallback) >= n) ~> (Len(invoked) >= n)
    /\ <>[](bt_app_task_queue = << >> /\ wpc = "receive")
    /\ []((bt_app_task_queue = << >> /\ wpc = "receive") => ~ENABLED WorkerStep)

\* every dispatch has been made, three messages were queued and the worker
\* has invoked all their callbacks and waits on the empty queue
C24_Witness ==
    /\ calls = MaxDispatch
    /\ Len(enq) = 3
    /\ Len(invoked) = Len(EnqWithCallback)
    /\ Len(invoked) >= 2
    /\ bt_app_task_queue = << >>
    /\ wpc = "receive"

\* ---------------------------------------------------------------------
\* Life cycle of the dispatcher: C25, C26
\* ---------------------------------------------------------------------

ShutDownReturned == sd_pc > Len(bt_app_task_shut_down_steps)

\* C25: between bt_app_task_start_up and bt_app_task_shut_down exactly one
\* worker task and exactly one dispatch queue are live, and every dispatch
\* of the program (starting with the stack-up dispatch of app_main) happens
\* inside that interval; after shutdown both handles are NULL and neither
\* object is live.
C25_OneWorkerOneQueue ==
    /\ WDUp => wd_live = [task |-> 1, queue |-> 1]
    /\ wd_live.task <= 1 /\ wd_live.queue <= 1
    /\ "dispatch_outside" \notin wd_events
    /\ (\E p \in Producers : ppc[p] # "idle") => WDUp
    /\ ShutDownReturned =>
          /\ wd_handle = [bt_app_task_handle |-> "NULL",
                          bt_app_task_queue |-> "NULL"]
          /\ wd_live = [task |-> 0, queue |-> 0]

\* the stack-up dispatch was made and its callback invoked, and
\* bt_app_task_shut_down has returned
C25_Witness ==
    /\ ShutDownReturned
    /\ Len(invoked) >= 1
    /\ invoked[1].cb = "bt_hf_hdl_stack_evt"
    /\ wd_teardown # << >>

\* C26: bt_app_task_shut_down deletes the worker task before the queue,
\* so the worker task never receives from (nor waits in) a queue that has
\* been deleted.
C26_TaskDeletedBeforeQueue ==
    /\ \A i \in 1..Len(wd_teardown) : wd_teardown[i] = << "task", "queue" >>[i]
    /\ Len(wd_teardown) <= 2
    /\ "receive_deleted_queue" \notin wd_events
    /\ (\E i \in 1..Len(wd_teardown) : wd_teardown[i] = "queue")
          => wd_live.task = 0

\* the queue was deleted while it still held a message, after the worker
\* task, which was deleted in the middle of a message
C26_Witness ==
    /\ wd_teardown = << "task", "queue" >>
    /\ bt_app_task_queue # << >>
    /\ wpc = "switch"

\* ---------------------------------------------------------------------
\* Life cycle of the audio engine: C22, C23
\* ---------------------------------------------------------------------

\* C22: bt_app_send_data_shut_down tears the audio engine down in the
\* strict order: the periodic timer first, then the generation task, then
\* the wake semaphore, then the ring buffer.
C22_TeardownOrder ==
    IsPrefix(aud_teardown, << "timer", "task", "sem", "rb" >>)

\* C23: during and after audio shutdown, under any interleaving with
\* timer ticks, no timer callback gives a deleted semaphore, the generation
\* task makes no production wake once the timer is stopped, and the task
\* never takes a deleted semaphore or pushes into a deleted ring buffer.
C23_NoUseAfterDelete ==
    /\ aud_events \cap {"give_deleted_semaphore", "wake_after_timer_stop",
                        "take_deleted_semaphore",
                        "push_deleted_ring_buffer"} = {}
    /\ audio_state = ESP_HF_AUDIO_STATE_DISCONNECTED =>
          /\ aud_live.armed > 0 => aud_live.sem > 0
          /\ aud_live.task > 0 =>
                aud_live.armed > 0 /\ aud_live.sem > 0 /\ aud_live.rb > 0

\* the shutdown has deleted all four objects, the task in the middle of a
\* production, and the timer fired between the deletion of the task and
\* the stop of the timer
C23_Witness ==
    /\ Len(aud_teardown) = 4
    /\ hf_pc = "idle"
    /\ "give_without_task" \in aud_events
    /\ gpc = "send"

\* ---------------------------------------------------------------------
\* Frame parser: C38, C39
\* ---------------------------------------------------------------------

\* the last byte fed and the parser state it was fed to are known from the
\* step: a step that feeds a byte appends it to fed
C38_Step ==
    fed' # fed =>
        \A i \in hf_msg_parse_stores(fed'[Len(fed')], prs) :
            i >= 0 /\ i <= HF_MSG_LEN_MAX

C38_State ==
    /\ prs.state = "IDLE" => prs.cnt = 0 /\ prs.h_idx = 0
    /\ prs.state = "HDR" => prs.cnt = prs.h_idx /\ prs.cnt \in {1, 2}
    /\ prs.state = "PAYL" =>
          /\ prs.h_idx = 3
          /\ 3 <= prs.cnt
          /\ prs.cnt < HF_MSG_LEN_MAX

\* C38: starting from a reset parser, after every hf_msg_parse call: state
\* IDLE implies cursor = 0 and header index = 0; HEADER implies cursor =
\* header index, 1 or 2; PAYLOAD implies header index = 3 and 3 <= cursor <
\* HF_MSG_LEN_MAX.  Hence no byte, the terminating NUL included, is stored
\* beyond buffer index HF_MSG_LEN_MAX.
C38_CursorBounds == [](C38_State /\ Len(prs.buf) = HF_MSG_LEN_MAX + 1) /\ [][C38_Step]_vars

\* a frame of HF_MSG_LEN_MAX bytes was completed: its NUL went to index
\* HF_MSG_LEN_MAX, the last of the buffer
C38_Witness ==
    /\ frames # << >>
    /\ frames[Len(frames)].len = HF_MSG_LEN_MAX
    /\ prs.buf[HF_MSG_LEN_MAX + 1] = NUL
    /\ prs.state = "IDLE"

\* C39: every frame handed to the completion callback begins with "hf ",
\* ends with ';', contains no other ';', has a length between 4 and
\* HF_MSG_LEN_MAX that equals the len argument, and is followed by a NUL
\* at index len.
C39_FrameShape ==
    \A k \in 1..Len(frames) :
        LET f == frames[k].frame IN
        /\ Len(f) = frames[k].len
        /\ frames[k].len >= 4 /\ frames[k].len <= HF_MSG_LEN_MAX
        /\ SubSeq(f, 1, 3) = << "h", "f", " " >>
        /\ f[Len(f)] = ";"
        /\ \A i \in 1..(Len(f) - 1) : f[i] # ";"
        /\ frames[k].nul = NUL

\* the frame "hf con;" was handed over
C39_Witness ==
    /\ Len(frames) = 1
    /\ frames[1].frame = << "h", "f", " ", "c", "o", "n", ";" >>
    /\ frames[1].len = 7

\* ---------------------------------------------------------------------
\* Argument splitter: C40
\* ---------------------------------------------------------------------

\* C40: for every input [start, end) with a NUL at end and every max >= 1,
\* hf_msg_split_args keeps its scan pointer within [start, end], never
\* writes to a byte at or beyond end and never writes outside
\* argv[0..max-1]; on return each argv[i] with i < *argn points inside
\* [start, end) at a non-empty token without whitespace, and each argv[i]
\* with *argn <= i < max is NULL.
C40_SplitStaysInBounds ==
    (split_out # NoSplit /\ split_argn >= 1) =>
        /\ split_out.p >= 0 /\ split_out.p <= SplitLen
        /\ Len(split_out.buf) = Len(split_buf)
        /\ \A i \in 1..Len(split_buf) :
               split_out.buf[i] # split_buf[i] => i <= SplitLen
        /\ Len(split_out.argv) = split_argn + 1
        /\ split_out.argv[split_argn + 1] = JUNK
        /\ split_out.argn >= 0 /\ split_out.argn <= split_argn
        /\ \A m \in 1..split_argn :
               IF m <= split_out.argn
               THEN /\ split_out.argv[m] >= 0
                    /\ split_out.argv[m] < SplitLen
                    /\ SplitArgs[m] # << >>
                    /\ \A k \in 1..Len(SplitArgs[m]) :
                           SplitArgs[m][k] \notin WhiteSpace
               ELSE split_out.argv[m] = NULLPTR

\* the input holds more tokens than the limit of two, so the scan stopped
\* inside the input with both slots filled; another split of an input of
\* blanks is covered by the same formula with every slot NULL
C40_Witness ==
    /\ split_out # NoSplit
    /\ split_argn = 2
    /\ SplitText = << "a", " ", "b", "TAB", "a" >>
    /\ split_out.argn = 2
    /\ split_out.p = 4
    /\ split_out.argv = << 0, 2, JUNK >>

\* ---------------------------------------------------------------------
\* Work dispatcher: C31
\* ---------------------------------------------------------------------

\* the parameter block at address a is held by a message that is on its
\* way to the worker's free: in a producer's msg, in the queue, or in the
\* worker's msg
C31_Held(a) ==
    \/ \E p \in Producers : ppc[p] # "idle" /\ pmsg[p].param = a
    \/ \E i \in 1..Len(bt_app_task_queue) : bt_app_task_queue[i].param = a
    \/ wpc # "receive" /\ wmsg.param = a

\* C31: every parameter buffer allocated by bt_app_work_dispatch is freed
\* exactly once, and only after its callback has returned: never before or
\* during the callback, never twice, and never left allocated forever, the
\* enqueue that fails on a full queue included.
C31_ParamFreedOnce ==
    \A a \in DOMAIN heap :
        /\ heap[a].frees <= 1
        /\ heap[a].live => C31_Held(a)
        /\ ~heap[a].live => \E k \in 1..Len(invoked) : invoked[k].id = a

\* ---------------------------------------------------------------------
\* Audio engine, pull against push: C37
\* ---------------------------------------------------------------------

\* C37: only the pull callback removes bytes from the ring buffer, so the
\* occupancy read by its check is a lower bound on the occupancy at its
\* receive: under every interleaving with the generation task's pushes, a
\* pull that passed the occupancy >= N check never finds fewer than N bytes
\* buffered.
C37_CheckIsLowerBound ==
    opc = "checked" =>
        /\ s_m_rb.cnt >= o_item_size
        /\ DataEnough(o_item_size, o_sz) => s_m_rb.cnt >= o_sz

\* a pull has passed its check, and a push has landed before its receive
C37_Witness ==
    /\ opc = "checked"
    /\ o_item_size >= o_sz
    /\ s_m_rb.cnt > o_item_size

\* ---------------------------------------------------------------------
\* Audio engine life cycle, handles and session start: C32, C33
\* ---------------------------------------------------------------------

\* C32: the handle variables reflect liveness: whenever s_m_rb or
\* s_periodic_timer is non-NULL, the ring buffer or timer it names is live
\* (created and not yet deleted); hence a further shutdown does not stop or
\* delete an already-deleted timer or ring buffer.
C32_HandlesReflectLiveness ==
    /\ aud_handle.s_m_rb # "NULL" =>
           aud_handle.s_m_rb = "set" /\ aud_live.rb > 0
    /\ aud_handle.s_periodic_timer # "NULL" =>
           aud_handle.s_periodic_timer = "set" /\ aud_live.timer > 0
    /\ aud_events \cap {"stop_deleted_timer", "delete_deleted_timer",
                        "delete_deleted_ring_buffer"} = {}

C33_Step == IsWake => hf_pc # "bt_app_send_data"

\* C33: under any interleaving of bt_app_send_data with timer ticks and
\* the generation task, the first production wake of a session happens
\* after s_last_enter_time has been initialised for that session, that is,
\* not while bt_app_send_data is still running.
C33_FirstWakeAfterInit == [][C33_Step]_vars

\* ---------------------------------------------------------------------
\* Audio engine objects under arbitrary audio-state events: C35
\* ---------------------------------------------------------------------

\* C35: for any sequence of audio-state events given to bt_app_hf_cb, at
\* most one periodic timer, one generation task, one wake semaphore and one
\* ring buffer are live at any time.
C35_AtMostOneOfEach ==
    /\ aud_live.timer <= 1
    /\ aud_live.armed <= 1
    /\ aud_live.task <= 1
    /\ aud_live.sem <= 1
    /\ aud_live.rb <= 1

\* ---------------------------------------------------------------------
\* Audio engine, waveform index: C36
\* ---------------------------------------------------------------------

\* the chunk made of the n bytes synthesized last: cell by cell, the table
\* position of the cell's first byte
C36_LastChunk(n) ==
    [k \in 1..(n \div Cell) |-> (synth - n + (k - 1) * Cell) % TABLE_SIZE_BYTE]

\* C36: the waveform index is always in [0,200) and is never reset: the
\* k-th byte synthesized since boot (the bytes of chunks dropped later and
\* the bytes of earlier audio sessions counted) is byte (k mod 200) of the
\* sine table.
C36_IndexCyclesForever ==
    /\ index \in 0..(TABLE_SIZE_BYTE - 1)
    /\ index = synth % TABLE_SIZE_BYTE
    /\ gpc = "send" => gbuf = C36_LastChunk(frame_data_num)

\* a chunk synthesized in the second audio session, the index carried over
\* from the first one and wrapped around the table
C36_Witness ==
    /\ aud_nevents = 3
    /\ gpc = "send"
    /\ synth - frame_data_num > 0
    /\ synth > TABLE_SIZE_BYTE
    /\ gbuf[1] # 0

\* ---------------------------------------------------------------------
\* Audio engine, who writes the audio clock: C34
\* ---------------------------------------------------------------------

\* a step of the generation task: not one of bt_app_hf_cb (which moves
\* hf_pc or hf_step or counts an event), of the timer callback (which
\* moves aud_clock) or of a pull (which moves opc)
C34_TaskStep ==
    /\ hf_pc' = hf_pc
    /\ hf_step' = hf_step
    /\ aud_nevents' = aud_nevents
    /\ aud_clock' = aud_clock
    /\ opc' = opc

C34_OnlyTaskStep ==
    (s_last_enter_time' # s_last_enter_time \/ s_audio_code' # s_audio_code)
        => C34_TaskStep

\* C34, as stated: the last-production instant and the active codec mode
\* are written only by the generation task; no other context (bt_app_hf_cb,
\* bt_app_send_data, the pull and push callbacks, shutdown) writes either.
C34_OnlyTaskWrites == [][C34_OnlyTaskStep]_vars

C34_Step ==
    /\ s_last_enter_time' # s_last_enter_time =>
         \/ /\ C34_TaskStep
            /\ IsWake
         \/ /\ hf_pc = "bt_app_send_data"
            /\ bt_app_send_data_steps[hf_step] = "last_enter"
            /\ s_last_enter_time' = aud_clock
    /\ s_audio_code' # s_audio_code =>
         /\ hf_pc = "idle"
         /\ aud_nevents' = aud_nevents + 1
         /\ audio_state' \in ConnectedStates
         /\ s_audio_code' = audio_state'

\* C34, amended: the last-production instant is written only by the
\* generation task at a wake and by bt_app_send_data, which sets it to the
\* current time; the active codec mode is written only by bt_app_hf_cb at
\* a connected event, which sets it to the event's codec; the timer
\* callback, the pull and push callbacks and shutdown write neither.
C34_WritersOfAudioClock == [][C34_Step]_vars

\* bt_app_hf_cb has set the wideband codec and bt_app_send_data has set
\* the last-production instant to a time that is no whole number of blocks
C34_Witness ==
    /\ hf_pc = "idle"
    /\ audio_state = ESP_HF_AUDIO_STATE_CONNECTED_MSBC
    /\ s_audio_code = ESP_HF_AUDIO_STATE_CONNECTED_MSBC
    /\ s_last_enter_time = aud_clock
    /\ aud_clock % PCM_BLOCK_DURATION_US # 0

=============================================================================
